---- MODULE Spec2Model ----
(***************************************************************************)
(* libxsql: the virtual-table engine binding of xsql/vtable.hpp and        *)
(* xsql/vtable_writable.hpp, and the socket server of xsql/socket.         *)
(*                                                                         *)
(* Ten specifications share the definitions of this module:               *)
(*   SpecPlan      builder calls followed by best-index (planner) calls,   *)
(*   SpecIndexPlan best-index on definitions with a filter and indexes,    *)
(*   SpecCursor    one cursor driven by the engine loop                    *)
(*                 filter; while not eof { column; next },                 *)
(*   SpecLatch     the same cursor with xNext calls after end of data,     *)
(*   SpecCache     several threads running cached_vtab_filter, the cached  *)
(*                 read callbacks and invalidate_cache on one shared cache,*)
(*   SpecUpdate    write opt-ins of the builder followed by xUpdate calls, *)
(*   SpecDelete    a DELETE statement on the tasks table of the example,   *)
(*   SpecRegister  register_* and create_* calls on two connections,       *)
(*   SpecBuilder   sequences of builder calls,                             *)
(*   SpecServer    run_async, run_server, handle_client, stop, ~Server.    *)
(*                                                                         *)
(* Costs and row estimates are C doubles in the source; the model draws    *)
(* them from integer-valued doubles, so they are TLA+ integers.            *)
(***************************************************************************)
EXTENDS Integers, Sequences, FiniteSets, TLC

VARIABLES
    def,        \* the table definition being built / registered
    phase,      \* SpecPlan: "building" | "built" | "planned"
    cons,       \* SpecPlan: aConstraint of the last best-index call
    pInfo,      \* SpecPlan: outputs of the last best-index call
    planCalls,  \* SpecPlan: user callbacks invoked by the best-index call in progress
    host,       \* the host application's rows (what row_count, getters and cache_builder read)
    cache,      \* the SharedCache of a cached definition
    cursor,     \* SpecCursor: the cursor object
    pc,         \* SpecCursor: where the engine loop stands
    seek,       \* SpecCursor: arguments of the last xFilter call
    out,        \* SpecCursor: rows the engine read since the last xFilter call
    eofResult,  \* SpecCursor: what the last xEof call returned
    calls,      \* SpecCursor: user callbacks invoked since (and by) the last xFilter
    rowids,     \* SpecCursor: what xRowid returned since the last xFilter call
    probe,      \* SpecCursor: what an xColumn call made after end of data did
    mutex,      \* SpecCache: the thread holding the cache's mutex, or NoThread
    tpc,        \* SpecCache: where each thread stands in the callback it runs
    tcur,       \* SpecCache: the cursor of each thread
    tplan,      \* SpecCache: idxNum and key of each thread's current xFilter call
    hist,       \* SpecCache: history of cache_builder and invalidate_cache calls
    wdef,       \* SpecUpdate: the members of the definition that xUpdate reads
    table,      \* SpecUpdate: the host rows that setters, deleter and inserter change
    upd,        \* SpecUpdate: the last xUpdate call: arguments, result, callbacks made
    heap,       \* SpecRegister: the definitions cloned by register_*, and their frees
    orig,       \* SpecRegister: the caller's own definition object
    eng,        \* SpecRegister: per connection, the modules and tables the engine holds
    rcall,      \* SpecRegister: the last library call: arguments, result, engine calls
    bcall,      \* SpecBuilder: the last builder call: its name, argument and receiver
    srv         \* SpecServer: the socket Server object, its two threads and its client

planOnly == <<phase, cons, pInfo, planCalls>>
cursorOnly == <<cursor, pc, seek, out, eofResult, calls, rowids, probe>>
cacheOnly == <<mutex, tpc, tcur, tplan, hist>>
updateOnly == <<wdef, table, upd>>
registerOnly == <<heap, orig, eng, rcall>>
otherThanPlan == <<host, cache, cursorOnly, cacheOnly, updateOnly, registerOnly, bcall, srv>>
otherThanCursor == <<planOnly, cacheOnly, updateOnly, registerOnly, bcall, srv>>
otherThanCache == <<def, planOnly, cursorOnly, updateOnly, registerOnly, bcall, srv>>
otherThanUpdate == <<cons, pInfo, planCalls, host, cursorOnly, cacheOnly, registerOnly, bcall, srv>>
otherThanRegister == <<def, host, cache, planOnly, cursorOnly, cacheOnly, updateOnly, bcall, srv>>
otherThanBuilder == <<host, cache, planOnly, cursorOnly, cacheOnly, updateOnly, registerOnly, srv>>
otherThanServer == <<def, host, cache, planOnly, cursorOnly, cacheOnly, updateOnly, registerOnly, bcall>>
vars == <<def, phase, cons, pInfo, planCalls, host, cache, cursor, pc, seek, out,
          eofResult, calls, rowids, probe, mutex, tpc, tcur, tplan, hist,
          wdef, table, upd, heap, orig, eng, rcall, bcall, srv>>

-----------------------------------------------------------------------------
(* Bounds *)

MaxCols == 2            \* columns declared per definition
MaxFilters == 2         \* filter_eq calls per definition
MaxIndexes == 2         \* index_on calls per definition
MaxConstraints == 2     \* nConstraint of one best-index call
MaxFilterCalls == 1000  \* filter_eq calls a host's registration loop makes

-----------------------------------------------------------------------------
(* Program constants *)

FILTER_NONE == 0
INDEX_BASE == 1000
LiveDefaultEstimate == 100000
CachedDefaultEstimate == 1000
GeneratorDefaultEstimate == 1000
InitialBestCost == 1000000000
IndexCost == 1
IndexEstimatedRows == 5

Flavors == {"live", "cached", "generator", "writable"}
ColumnNames == <<"a", "b", "c", "d">>   \* the n-th column call names ColumnNames[n]
UnknownColumn == "zz"
FilterCosts == {0, 1}
FilterRows == {10}
EstimateValues == {0}
HostCounts == {3}

NoFn == [ set |-> FALSE, value |-> 0 ]     \* an empty std::function
Fn(n) == [ set |-> TRUE, value |-> n ]      \* a std::function returning n
NoFilter == 0           \* const FilterDef* == nullptr (filters are named by position 1..n)

-----------------------------------------------------------------------------
(* Table definitions and their builders *)

\* The definition held by a freshly constructed builder.
EmptyDef(flavor) ==
    [ flavor        |-> flavor,
      columns       |-> << >>,
      filters       |-> << >>,
      index_defs    |-> << >>,
      estimate_rows |-> NoFn,
      row_count     |-> NoFn,
      generator_factory_fn |-> NoFn ]

\* find_column: position (0-based) of the first column with that name, -1 if none.
find_column(d, col_name) ==
    IF \E i \in 1..Len(d.columns) : d.columns[i] = col_name
    THEN (CHOOSE i \in 1..Len(d.columns) :
             /\ d.columns[i] = col_name
             /\ \A j \in 1..(i-1) : d.columns[j] # col_name) - 1
    ELSE -1

\* find_filter: the first filter on that column (as a position 1..n), NoFilter if none.
find_filter(d, col_index) ==
    IF \E i \in 1..Len(d.filters) : d.filters[i].column_index = col_index
    THEN CHOOSE i \in 1..Len(d.filters) :
             /\ d.filters[i].column_index = col_index
             /\ \A j \in 1..(i-1) : d.filters[j].column_index # col_index
    ELSE NoFilter

\* find_index: position (0-based) of the first index on that column, -1 if none.
find_index(d, col_index) ==
    IF \E i \in 1..Len(d.index_defs) : d.index_defs[i] = col_index
    THEN (CHOOSE i \in 1..Len(d.index_defs) :
             /\ d.index_defs[i] = col_index
             /\ \A j \in 1..(i-1) : d.index_defs[j] # col_index) - 1
    ELSE -1

\* column_int64 & co: append a column.
column_add(d, name) == [d EXCEPT !.columns = Append(@, name)]

\* A filter_eq that keeps the entry although find_column found no column.
filter_eq_keeps_unknown(d, column_name, cost, est_rows) ==
    LET col_idx == find_column(d, column_name)
        filter_id == Len(d.filters) + 1 IN
    [d EXCEPT !.filters = Append(@, [ column_index   |-> col_idx,
                                      filter_id      |-> filter_id,
                                      estimated_cost |-> cost,
                                      estimated_rows |-> est_rows ])]

\* filter_eq / filter_eq_text of the three builders of vtable.hpp.
filter_eq(d, column_name, cost, est_rows) ==
    LET col_idx == find_column(d, column_name) IN
    IF col_idx < 0 THEN d
    ELSE LET filter_id == Len(d.filters) + 1 IN
         [d EXCEPT !.filters = Append(@, [ column_index   |-> col_idx,
                                           filter_id      |-> filter_id,
                                           estimated_cost |-> cost,
                                           estimated_rows |-> est_rows ])]

\* index_on of the cached builder.
index_on(d, column_name) ==
    LET col_idx == find_column(d, column_name) IN
    IF col_idx < 0 THEN d
    ELSE [d EXCEPT !.index_defs = Append(@, col_idx)]

\* A host loop that calls filter_eq n times with the same arguments, and
\* stops once the definition has MaxFilterCalls filters: the first half of
\* the calls, then the rest.
RECURSIVE filter_eq_loop(_, _, _, _, _)
filter_eq_loop(d, column_name, cost, est_rows, n) ==
    IF n <= 0 \/ Len(d.filters) >= MaxFilterCalls THEN d
    ELSE IF n = 1 THEN filter_eq(d, column_name, cost, est_rows)
    ELSE LET half == filter_eq_loop(d, column_name, cost, est_rows, n \div 2) IN
         filter_eq_loop(half, column_name, cost, est_rows, n - (n \div 2))

\* No builder call made yet.
NoBCall == [ fn |-> "none", column_name |-> "", before |-> EmptyDef("live") ]

\* estimate_rows(fn): fn is a constant function returning n.
estimate_rows(d, n) == [d EXCEPT !.estimate_rows = Fn(n)]

\* generator(fn) of the generator builder; what fn returns is chosen per call.
generator(d) == [d EXCEPT !.generator_factory_fn = Fn(0)]

\* count(fn) of the live and writable builders: fn returns n.
count(d, n) == [d EXCEPT !.row_count = Fn(n)]

-----------------------------------------------------------------------------
(* Planner: the xBestIndex callbacks *)

\* aConstraint entries: a usable equality on any column, and one entry of
\* each kind the planners skip (not usable, not an equality, on the rowid).
Constraints ==
    { [ iColumn |-> c, op |-> "EQ", usable |-> TRUE ] : c \in 0..(MaxCols - 1) }
        \cup { [ iColumn |-> 0,  op |-> "EQ", usable |-> FALSE ],
               [ iColumn |-> 0,  op |-> "GT", usable |-> TRUE ],
               [ iColumn |-> -1, op |-> "EQ", usable |-> TRUE ] }

RECURSIVE SeqsUpTo(_, _)
SeqsUpTo(S, n) ==
    IF n = 0 THEN { << >> }
    ELSE LET shorter == SeqsUpTo(S, n - 1) IN
         shorter \cup { Append(s, x) : s \in { t \in shorter : Len(t) = n - 1 }, x \in S }

\* aConstraintUsage as the engine hands it in: nothing consumed.
NoUsage(n) == [ i \in 1..n |-> [ argvIndex |-> 0, omit |-> 0 ] ]

MarkUsage(usage, constraint_idx) ==
    [ usage EXCEPT ![constraint_idx + 1] = [ argvIndex |-> 1, omit |-> 1 ] ]

\* A planner that keeps the constraint of the first filter it met when a
\* cheaper filter replaces it.
RECURSIVE best_filter_loop_stale_idx(_, _, _, _, _)
best_filter_loop_stale_idx(d, cs, i, best_filter, best_constraint_idx) ==
    IF i >= Len(cs)
    THEN [ best_filter |-> best_filter, best_constraint_idx |-> best_constraint_idx ]
    ELSE LET constraint == cs[i + 1]
             filter == find_filter(d, constraint.iColumn)
         IN IF ~constraint.usable \/ constraint.op # "EQ"
            THEN best_filter_loop_stale_idx(d, cs, i + 1, best_filter, best_constraint_idx)
            ELSE IF /\ filter # NoFilter
                    /\ \/ best_filter = NoFilter
                       \/ d.filters[filter].estimated_cost
                              < d.filters[best_filter].estimated_cost
                 THEN best_filter_loop_stale_idx(d, cs, i + 1, filter,
                          IF best_constraint_idx < 0 THEN i ELSE best_constraint_idx)
                 ELSE best_filter_loop_stale_idx(d, cs, i + 1, best_filter,
                                                 best_constraint_idx)

\* The constraint loop of vtab_best_index and generator_vtab_best_index.
RECURSIVE best_filter_loop(_, _, _, _, _)
best_filter_loop(d, cs, i, best_filter, best_constraint_idx) ==
    IF i >= Len(cs)
    THEN [ best_filter |-> best_filter, best_constraint_idx |-> best_constraint_idx ]
    ELSE LET constraint == cs[i + 1]
             filter == find_filter(d, constraint.iColumn)
         IN IF ~constraint.usable \/ constraint.op # "EQ"
            THEN best_filter_loop(d, cs, i + 1, best_filter, best_constraint_idx)
            ELSE IF /\ filter # NoFilter
                    /\ \/ best_filter = NoFilter
                       \/ d.filters[filter].estimated_cost
                              < d.filters[best_filter].estimated_cost
                 THEN best_filter_loop(d, cs, i + 1, filter, i)
                 ELSE best_filter_loop(d, cs, i + 1, best_filter, best_constraint_idx)

\* Variant: the full scan always reports the default, never estimate_rows().
filter_or_scan_ignores_advisor(d, cs, default_rows) ==
    LET r == best_filter_loop(d, cs, 0, NoFilter, -1) IN
    IF r.best_filter # NoFilter /\ r.best_constraint_idx >= 0
    THEN [ idxNum          |-> d.filters[r.best_filter].filter_id,
           estimatedCost   |-> d.filters[r.best_filter].estimated_cost,
           estimatedRows   |-> d.filters[r.best_filter].estimated_rows,
           usage           |-> MarkUsage(NoUsage(Len(cs)), r.best_constraint_idx),
           row_count_calls |-> 0,
           estimate_calls  |-> 0 ]
    ELSE [ idxNum          |-> FILTER_NONE,
           estimatedCost   |-> default_rows,
           estimatedRows   |-> default_rows,
           usage           |-> NoUsage(Len(cs)),
           row_count_calls |-> 0,
           estimate_calls  |-> 0 ]

\* Shared tail of vtab_best_index / generator_vtab_best_index.
filter_or_scan(d, cs, default_rows) ==
    LET r == best_filter_loop(d, cs, 0, NoFilter, -1) IN
    IF r.best_filter # NoFilter /\ r.best_constraint_idx >= 0
    THEN [ idxNum          |-> d.filters[r.best_filter].filter_id,
           estimatedCost   |-> d.filters[r.best_filter].estimated_cost,
           estimatedRows   |-> d.filters[r.best_filter].estimated_rows,
           usage           |-> MarkUsage(NoUsage(Len(cs)), r.best_constraint_idx),
           row_count_calls |-> 0,
           estimate_calls  |-> 0 ]
    ELSE LET full_count == IF d.estimate_rows.set THEN d.estimate_rows.value
                           ELSE default_rows IN
         [ idxNum          |-> FILTER_NONE,
           estimatedCost   |-> full_count,
           estimatedRows   |-> full_count,
           usage           |-> NoUsage(Len(cs)),
           row_count_calls |-> 0,
           estimate_calls  |-> IF d.estimate_rows.set THEN 1 ELSE 0 ]

vtab_best_index(d, cs) == filter_or_scan(d, cs, LiveDefaultEstimate)

generator_vtab_best_index(d, cs) == filter_or_scan(d, cs, GeneratorDefaultEstimate)

\* Variant: a column's index is looked at only when its filter was not taken.
RECURSIVE cached_best_loop_filter_first(_, _, _, _)
cached_best_loop_filter_first(d, cs, i, st) ==
    IF i >= Len(cs) THEN st
    ELSE LET constraint == cs[i + 1]
             filter == find_filter(d, constraint.iColumn)
             idx_pos == find_index(d, constraint.iColumn)
             takeFilter == filter # NoFilter
                           /\ d.filters[filter].estimated_cost < st.best_cost
             st1 == IF takeFilter
                    THEN [ st EXCEPT !.best_filter = filter,
                                     !.best_filter_constraint_idx = i,
                                     !.best_cost = d.filters[filter].estimated_cost ]
                    ELSE st
             st2 == IF idx_pos >= 0 /\ ~takeFilter /\ IndexCost < st1.best_cost
                    THEN [ st1 EXCEPT !.best_index_pos = idx_pos,
                                      !.best_index_constraint_idx = i,
                                      !.best_cost = IndexCost,
                                      !.best_filter = NoFilter ]
                    ELSE st1
         IN IF ~constraint.usable \/ constraint.op # "EQ"
            THEN cached_best_loop_filter_first(d, cs, i + 1, st)
            ELSE cached_best_loop_filter_first(d, cs, i + 1, st2)

\* The constraint loop of cached_vtab_best_index; st is the tuple of its locals.
RECURSIVE cached_best_loop(_, _, _, _)
cached_best_loop(d, cs, i, st) ==
    IF i >= Len(cs) THEN st
    ELSE LET constraint == cs[i + 1]
             filter == find_filter(d, constraint.iColumn)
             idx_pos == find_index(d, constraint.iColumn)
             takeFilter == filter # NoFilter
                           /\ d.filters[filter].estimated_cost < st.best_cost
             st1 == IF takeFilter
                    THEN [ st EXCEPT !.best_filter = filter,
                                     !.best_filter_constraint_idx = i,
                                     !.best_cost = d.filters[filter].estimated_cost ]
                    ELSE st
             st2 == IF idx_pos >= 0 /\ IndexCost < st1.best_cost
                    THEN [ st1 EXCEPT !.best_index_pos = idx_pos,
                                      !.best_index_constraint_idx = i,
                                      !.best_cost = IndexCost,
                                      !.best_filter = NoFilter ]
                    ELSE st1
         IN IF ~constraint.usable \/ constraint.op # "EQ"
            THEN cached_best_loop(d, cs, i + 1, st)
            ELSE cached_best_loop(d, cs, i + 1, st2)

cached_vtab_best_index(d, cs) ==
    LET st == cached_best_loop(d, cs, 0,
                  [ best_filter                |-> NoFilter,
                    best_filter_constraint_idx |-> -1,
                    best_index_pos             |-> -1,
                    best_index_constraint_idx  |-> -1,
                    best_cost                  |-> InitialBestCost ])
    IN
    IF st.best_index_pos >= 0 /\ st.best_index_constraint_idx >= 0
    THEN [ idxNum          |-> INDEX_BASE + st.best_index_pos,
           estimatedCost   |-> IndexCost,
           estimatedRows   |-> IndexEstimatedRows,
           usage           |-> MarkUsage(NoUsage(Len(cs)), st.best_index_constraint_idx),
           row_count_calls |-> 0,
           estimate_calls  |-> 0 ]
    ELSE IF st.best_filter # NoFilter /\ st.best_filter_constraint_idx >= 0
    THEN [ idxNum          |-> d.filters[st.best_filter].filter_id,
           estimatedCost   |-> d.filters[st.best_filter].estimated_cost,
           estimatedRows   |-> d.filters[st.best_filter].estimated_rows,
           usage           |-> MarkUsage(NoUsage(Len(cs)), st.best_filter_constraint_idx),
           row_count_calls |-> 0,
           estimate_calls  |-> 0 ]
    ELSE LET estimated == IF d.estimate_rows.set THEN d.estimate_rows.value
                          ELSE CachedDefaultEstimate IN
         [ idxNum          |-> FILTER_NONE,
           estimatedCost   |-> estimated,
           estimatedRows   |-> estimated,
           usage           |-> NoUsage(Len(cs)),
           row_count_calls |-> 0,
           estimate_calls  |-> IF d.estimate_rows.set THEN 1 ELSE 0 ]

\* writable_vtab_best_index: idxNum and the usage array stay as the engine
\* initialised them; the estimate is the authoritative row_count().
writable_vtab_best_index(d, cs) ==
    LET n == d.row_count.value IN
    [ idxNum          |-> FILTER_NONE,
      estimatedCost   |-> n,
      estimatedRows   |-> n,
      usage           |-> NoUsage(Len(cs)),
      row_count_calls |-> 1,
      estimate_calls  |-> 0 ]

\* The xBestIndex slot of the module of each flavor.
best_index(d, cs) ==
    CASE d.flavor = "live"      -> vtab_best_index(d, cs)
      [] d.flavor = "cached"    -> cached_vtab_best_index(d, cs)
      [] d.flavor = "generator" -> generator_vtab_best_index(d, cs)
      [] d.flavor = "writable"  -> writable_vtab_best_index(d, cs)

\* pInfo before the first best-index call.
NoPlan == [ idxNum |-> -1, estimatedCost |-> -1, estimatedRows |-> -1,
            usage |-> << >>, row_count_calls |-> 0, estimate_calls |-> 0 ]

-----------------------------------------------------------------------------
(* Engine values, rows, user iterators and generators *)

MaxScript == 2          \* next() calls a user iterator or generator answers from its script

IntVal(n)  == [ t |-> "int",  v |-> n ]
RealVal(h) == [ t |-> "real", v |-> h ]     \* the double h / 2
NullVal    == [ t |-> "null", v |-> 0 ]

\* Values the engine may pass as argv[0]: 0, 1 and 1.5.
ArgValues == { IntVal(0), IntVal(1), RealVal(3) }

\* sqlite3_value_int64: an INTEGER as it is, a REAL truncated toward zero.
sqlite3_value_int64(val) ==
    CASE val.t = "int"  -> val.v
      [] val.t = "real" -> IF val.v >= 0 THEN val.v \div 2 ELSE -((-val.v) \div 2)
      [] val.t = "null" -> 0

\* A row of the host: <<a, b>>, the values of the two declared columns.
HostDatas ==
    { << >>,
      << <<1, 0>> >>,
      << <<0, 1>>, <<1, 1>> >>,
      << <<1, 1>>, <<0, 0>>, <<1, 1>> >> }

\* What a column getter of column col hands to sqlite3_result_int64 for a row.
column_get(row, col) == IntVal(row[col + 1])

\* A user RowIterator: next() answers from a script and returns false once
\* the script is used up; eof() is a separate predicate that may or may not
\* agree with next(). last, trues and falses record what next() returned.
EofModes == {"never", "honest", "always"}

NullIter == [ isnull |-> TRUE, key |-> 0, script |-> << >>, pos |-> 0,
              eof_mode |-> "never", last |-> FALSE, trues |-> 0, falses |-> 0 ]

NewIter(script, mode) ==
    [ isnull |-> FALSE, key |-> 0, script |-> script, pos |-> 0,
      eof_mode |-> mode, last |-> FALSE, trues |-> 0, falses |-> 0 ]

Scripts == SeqsUpTo(BOOLEAN, MaxScript)

\* Everything a filter factory may return.
FactoryResults == { NullIter } \cup { NewIter(sc, m) : sc \in Scripts, m \in EofModes }

\* RowIterator::next()
iter_next(it) ==
    LET r == IF it.pos < Len(it.script) THEN it.script[it.pos + 1] ELSE FALSE IN
    [ it EXCEPT !.pos = IF it.pos < Len(it.script) THEN @ + 1 ELSE @,
                !.last = r,
                !.trues = IF r THEN @ + 1 ELSE @,
                !.falses = IF r THEN @ ELSE @ + 1 ]

\* RowIterator::eof()
iter_eof(it) ==
    CASE it.eof_mode = "never"  -> FALSE
      [] it.eof_mode = "always" -> TRUE
      [] it.eof_mode = "honest" -> ~it.last

\* RowIterator::column(): column 0 is the key the factory got, column 1 the position.
iter_column(it, col) == IF col = 0 THEN IntVal(it.key) ELSE IntVal(it.pos)

\* RowIterator::rowid()
iter_rowid(it) == it.pos

\* The lambda filter_eq wraps around the user factory: the factory sees
\* sqlite3_value_int64(argv[0]).
filter_create(made, argv0) ==
    IF made.isnull THEN made ELSE [ made EXCEPT !.key = sqlite3_value_int64(argv0) ]

\* A user Generator: next() as for iterators; current() is row number pos.
NullGen == [ isnull |-> TRUE, script |-> << >>, pos |-> 0, last |-> FALSE,
             trues |-> 0, falses |-> 0 ]

NewGen(script) == [ isnull |-> FALSE, script |-> script, pos |-> 0, last |-> FALSE,
                    trues |-> 0, falses |-> 0 ]

GeneratorResults == { NullGen } \cup { NewGen(sc) : sc \in Scripts }

gen_next(g) ==
    LET r == IF g.pos < Len(g.script) THEN g.script[g.pos + 1] ELSE FALSE IN
    [ g EXCEPT !.pos = IF g.pos < Len(g.script) THEN @ + 1 ELSE @,
               !.last = r,
               !.trues = IF r THEN @ + 1 ELSE @,
               !.falses = IF r THEN @ ELSE @ + 1 ]

gen_current(g) == << g.pos, g.pos % 2 >>

gen_rowid(g) == g.pos

-----------------------------------------------------------------------------
(* The shared cache of the cached flavor *)

\* build() pre-creates the SharedCache: empty, not built.
EmptyCache == [ data |-> << >>, indexes |-> << >>, built |-> FALSE ]

EmptyMap == [ k \in {} |-> << >> ]

\* A push at the front of the key's list instead of push_back.
map_push_front(m, key, row) ==
    [ k \in DOMAIN m \cup {key} |->
        IF k = key THEN (IF key \in DOMAIN m THEN << row >> \o m[key] ELSE << row >>)
        ELSE m[k] ]

\* index_map[key].push_back(row)
map_push(m, key, row) ==
    [ k \in DOMAIN m \cup {key} |->
        IF k = key THEN (IF key \in DOMAIN m THEN Append(m[key], row) ELSE << row >>)
        ELSE m[k] ]

\* The inner loop of ensure_cache_built: rows row .. size-1 pushed into one map.
RECURSIVE index_rows(_, _, _, _)
index_rows(m, data, col, row) ==
    IF row >= Len(data) THEN m
    ELSE index_rows(map_push(m, data[row + 1][col + 1], row), data, col, row + 1)

\* indexes.resize(n): keeps the maps that exist, adds empty ones.
indexes_resize(indexes, n) ==
    [ i \in 1..n |-> IF i <= Len(indexes) THEN indexes[i] ELSE EmptyMap ]

\* "Build indexes" of ensure_cache_built; the key extractor of an index on
\* column c returns the row's value of c.
build_indexes(d, sc) ==
    LET resized == indexes_resize(sc.indexes, Len(d.index_defs)) IN
    [ idx \in 1..Len(d.index_defs) |->
        index_rows(resized[idx], sc.data, d.index_defs[idx], 0) ]

\* The user's cache_builder: appends the host's rows to the vector it is given.
cache_builder_fn(data, h) == data \o h

\* ensure_cache_built, run to completion by one thread.
ensure_cache_built(d, sc, h) ==
    IF sc.built THEN sc
    ELSE LET filled == [ sc EXCEPT !.data = cache_builder_fn(@, h) ] IN
         [ filled EXCEPT !.indexes = build_indexes(d, filled), !.built = TRUE ]

-----------------------------------------------------------------------------
(* Cursors: the fields of Cursor, CachedCursor and GeneratorCursor *)

\* index_matches: a pointer to the vector stored at indexes[index][key].
NullPtr == [ null |-> TRUE, index |-> 0, key |-> 0 ]
PtrTo(index, key) == [ null |-> FALSE, index |-> index, key |-> key ]
Deref(sc, p) == sc.indexes[p.index + 1][p.key]

\* xOpen of the three modules.
vtab_open ==
    [ idx |-> 0, total |-> 0,
      current_row |-> 0, using_index |-> FALSE, index_matches |-> NullPtr, index_pos |-> 0,
      iterator |-> NullIter, using_iterator |-> FALSE, iterator_eof |-> FALSE,
      generator |-> NullGen, generator_eof |-> FALSE ]

NoFx == [ row_count |-> 0, cache_builder |-> 0, factory |-> 0, generator_factory |-> 0,
          getter |-> 0, iter_column |-> 0 ]

\* The filter whose filter_id is idxNum (position 1..n), NoFilter if none.
filter_by_id(d, idxNum) ==
    IF \E i \in 1..Len(d.filters) : d.filters[i].filter_id = idxNum
    THEN CHOOSE i \in 1..Len(d.filters) :
             /\ d.filters[i].filter_id = idxNum
             /\ \A j \in 1..(i-1) : d.filters[j].filter_id # idxNum
    ELSE NoFilter

\* The "create the filtered iterator" block of the three xFilter callbacks.
start_iterator(c, made, argv0) ==
    LET it == filter_create(made, argv0)
        stepped == IF it.isnull THEN it ELSE iter_next(it)
    IN [ c EXCEPT !.iterator = stepped,
                  !.using_iterator = TRUE,
                  !.iterator_eof = IF it.isnull THEN TRUE ELSE ~stepped.last ]

\* Result codes of the engine's C interface, by name.
SQLITE_OK == "SQLITE_OK"
SQLITE_ERROR == "SQLITE_ERROR"
SQLITE_READONLY == "SQLITE_READONLY"

\* ---- live flavor ----

\* Variant: a null iterator makes the call fall back to the full scan.
vtab_filter_null_falls_back(c, d, h, idxNum, argc, argv0, made) ==
    LET reset == [ c EXCEPT !.iterator = NullIter, !.using_iterator = FALSE,
                            !.iterator_eof = FALSE, !.idx = 0, !.total = 0 ]
    IN IF /\ idxNum # FILTER_NONE /\ argc > 0 /\ filter_by_id(d, idxNum) # NoFilter
          /\ ~made.isnull
       THEN [ cursor |-> start_iterator(reset, made, argv0),
              fx |-> [ NoFx EXCEPT !.factory = 1 ],
              rc |-> SQLITE_OK ]
       ELSE [ cursor |-> [ reset EXCEPT !.total = Len(h) ],
              fx |-> [ NoFx EXCEPT !.row_count = 1,
                                   !.factory = IF idxNum # FILTER_NONE /\ argc > 0
                                                  /\ filter_by_id(d, idxNum) # NoFilter
                                               THEN 1 ELSE 0 ],
              rc |-> SQLITE_OK ]

\* Variant: the reset leaves the scan position where the last scan ended.
vtab_filter_keeps_position(c, d, h, idxNum, argc, argv0, made) ==
    LET reset == [ c EXCEPT !.iterator = NullIter, !.using_iterator = FALSE,
                            !.iterator_eof = FALSE, !.total = 0 ]
    IN IF idxNum # FILTER_NONE /\ argc > 0 /\ filter_by_id(d, idxNum) # NoFilter
       THEN [ cursor |-> start_iterator(reset, made, argv0),
              fx |-> [ NoFx EXCEPT !.factory = 1 ],
              rc |-> SQLITE_OK ]
       ELSE [ cursor |-> [ reset EXCEPT !.total = Len(h) ],
              fx |-> [ NoFx EXCEPT !.row_count = 1 ],
              rc |-> SQLITE_OK ]

vtab_filter(c, d, h, idxNum, argc, argv0, made) ==
    LET reset == [ c EXCEPT !.iterator = NullIter, !.using_iterator = FALSE,
                            !.iterator_eof = FALSE, !.idx = 0, !.total = 0 ]
    IN IF idxNum # FILTER_NONE /\ argc > 0 /\ filter_by_id(d, idxNum) # NoFilter
       THEN [ cursor |-> start_iterator(reset, made, argv0),
              fx |-> [ NoFx EXCEPT !.factory = 1 ],
              rc |-> SQLITE_OK ]
       ELSE [ cursor |-> [ reset EXCEPT !.total = Len(h) ],
              fx |-> [ NoFx EXCEPT !.row_count = 1 ],
              rc |-> SQLITE_OK ]

\* Variant: the latch follows the iterator's latest answer.
vtab_next_follows_iterator(c) ==
    IF c.using_iterator /\ ~c.iterator.isnull
    THEN LET stepped == iter_next(c.iterator) IN
         [ c EXCEPT !.iterator = stepped, !.iterator_eof = ~stepped.last ]
    ELSE [ c EXCEPT !.idx = @ + 1 ]

vtab_next(c) ==
    IF c.using_iterator /\ ~c.iterator.isnull
    THEN LET stepped == iter_next(c.iterator) IN
         [ c EXCEPT !.iterator = stepped,
                    !.iterator_eof = IF ~stepped.last THEN TRUE ELSE @ ]
    ELSE [ c EXCEPT !.idx = @ + 1 ]

\* An xEof that trusts the iterator's eof() alone and ignores the latch.
vtab_eof_trusts_iterator(c) ==
    IF c.using_iterator
    THEN IF c.iterator.isnull THEN 1
         ELSE IF iter_eof(c.iterator) THEN 1 ELSE 0
    ELSE IF c.idx >= c.total THEN 1 ELSE 0

vtab_eof(c) ==
    IF c.using_iterator
    THEN IF c.iterator.isnull \/ c.iterator_eof THEN 1
         ELSE IF iter_eof(c.iterator) THEN 1 ELSE 0
    ELSE IF c.idx >= c.total THEN 1 ELSE 0

\* The user getter of the live flavor reads the host's row idx; beyond the
\* host's rows it has nothing to return.
live_get(h, idx, col) == IF idx < Len(h) THEN column_get(h[idx + 1], col) ELSE NullVal

vtab_column(c, d, h, col) ==
    IF col < 0 \/ col >= Len(d.columns) THEN [ value |-> NullVal, getter |-> 0, iter_column |-> 0 ]
    ELSE IF c.using_iterator /\ ~c.iterator.isnull
    THEN IF c.iterator_eof THEN [ value |-> NullVal, getter |-> 0, iter_column |-> 0 ]
         ELSE [ value |-> iter_column(c.iterator, col), getter |-> 0, iter_column |-> 1 ]
    ELSE [ value |-> live_get(h, c.idx, col), getter |-> 1, iter_column |-> 0 ]

vtab_rowid(c) ==
    IF c.using_iterator /\ ~c.iterator.isnull
    THEN IF c.iterator_eof THEN 0 ELSE iter_rowid(c.iterator)
    ELSE c.idx

\* ---- cached flavor ----

\* Variant: the cache is ensured before the filter lookup as well.
cached_vtab_filter_builds_first(c, d, sc, h, idxNum, argc, argv0, made) ==
    LET reset == [ c EXCEPT !.iterator = NullIter, !.using_iterator = FALSE,
                            !.iterator_eof = FALSE, !.using_index = FALSE,
                            !.index_matches = NullPtr, !.index_pos = 0,
                            !.current_row = 0 ]
        index_pos == idxNum - INDEX_BASE
        built == ensure_cache_built(d, sc, h)
        builds == IF sc.built THEN 0 ELSE 1
        key == sqlite3_value_int64(argv0)
    IN IF /\ idxNum # FILTER_NONE /\ argc > 0
          /\ idxNum >= INDEX_BASE
          /\ index_pos >= 0 /\ index_pos < Len(d.index_defs)
          /\ built.built /\ index_pos < Len(built.indexes)
       THEN [ cursor |-> [ reset EXCEPT
                             !.using_index = TRUE,
                             !.index_matches =
                                 IF key \in DOMAIN built.indexes[index_pos + 1]
                                 THEN PtrTo(index_pos, key) ELSE NullPtr ],
              cache |-> built,
              fx |-> [ NoFx EXCEPT !.cache_builder = builds ],
              rc |-> SQLITE_OK ]
       ELSE IF idxNum # FILTER_NONE /\ argc > 0 /\ filter_by_id(d, idxNum) # NoFilter
       THEN [ cursor |-> start_iterator(reset, made, argv0),
              cache |-> built,
              fx |-> [ NoFx EXCEPT !.factory = 1, !.cache_builder = builds ],
              rc |-> SQLITE_OK ]
       ELSE [ cursor |-> reset,
              cache |-> built,
              fx |-> [ NoFx EXCEPT !.cache_builder = builds ],
              rc |-> SQLITE_OK ]

cached_vtab_filter(c, d, sc, h, idxNum, argc, argv0, made) ==
    LET reset == [ c EXCEPT !.iterator = NullIter, !.using_iterator = FALSE,
                            !.iterator_eof = FALSE, !.using_index = FALSE,
                            !.index_matches = NullPtr, !.index_pos = 0,
                            !.current_row = 0 ]
        index_pos == idxNum - INDEX_BASE
        built == ensure_cache_built(d, sc, h)
        builds == IF sc.built THEN 0 ELSE 1
        key == sqlite3_value_int64(argv0)
    IN IF /\ idxNum # FILTER_NONE /\ argc > 0
          /\ idxNum >= INDEX_BASE
          /\ index_pos >= 0 /\ index_pos < Len(d.index_defs)
          /\ built.built /\ index_pos < Len(built.indexes)
       THEN [ cursor |-> [ reset EXCEPT
                             !.using_index = TRUE,
                             !.index_matches =
                                 IF key \in DOMAIN built.indexes[index_pos + 1]
                                 THEN PtrTo(index_pos, key) ELSE NullPtr ],
              cache |-> built,
              fx |-> [ NoFx EXCEPT !.cache_builder = builds ],
              rc |-> SQLITE_OK ]
       ELSE IF idxNum # FILTER_NONE /\ argc > 0 /\ filter_by_id(d, idxNum) # NoFilter
       THEN [ cursor |-> start_iterator(reset, made, argv0),
              cache |-> sc,
              fx |-> [ NoFx EXCEPT !.factory = 1 ],
              rc |-> SQLITE_OK ]
       ELSE [ cursor |-> reset,
              cache |-> built,
              fx |-> [ NoFx EXCEPT !.cache_builder = builds ],
              rc |-> SQLITE_OK ]

cached_vtab_next(c) ==
    IF c.using_iterator /\ ~c.iterator.isnull
    THEN LET stepped == iter_next(c.iterator) IN
         [ c EXCEPT !.iterator = stepped,
                    !.iterator_eof = IF ~stepped.last THEN TRUE ELSE @ ]
    ELSE IF c.using_index THEN [ c EXCEPT !.index_pos = @ + 1 ]
    ELSE [ c EXCEPT !.current_row = @ + 1 ]

\* The cursor-local cache vector is cleared by every filter call and never
\* filled, so its size is 0.
cached_vtab_eof(c, sc) ==
    IF c.using_iterator
    THEN IF c.iterator.isnull \/ c.iterator_eof THEN 1
         ELSE IF iter_eof(c.iterator) THEN 1 ELSE 0
    ELSE IF c.using_index
    THEN IF c.index_matches.null THEN 1
         ELSE IF c.index_pos >= Len(Deref(sc, c.index_matches)) THEN 1 ELSE 0
    ELSE IF sc.built
    THEN IF c.current_row >= Len(sc.data) THEN 1 ELSE 0
    ELSE IF c.current_row >= 0 THEN 1 ELSE 0

cached_vtab_column(c, d, sc, col) ==
    IF col < 0 \/ col >= Len(d.columns) THEN [ value |-> NullVal, getter |-> 0, iter_column |-> 0 ]
    ELSE IF c.using_iterator /\ ~c.iterator.isnull
    THEN IF c.iterator_eof THEN [ value |-> NullVal, getter |-> 0, iter_column |-> 0 ]
         ELSE [ value |-> iter_column(c.iterator, col), getter |-> 0, iter_column |-> 1 ]
    ELSE IF c.using_index
    THEN IF ~c.index_matches.null /\ c.index_pos < Len(Deref(sc, c.index_matches))
         THEN LET row_idx == Deref(sc, c.index_matches)[c.index_pos + 1] IN
              IF row_idx < Len(sc.data)
              THEN [ value |-> column_get(sc.data[row_idx + 1], col), getter |-> 1,
                     iter_column |-> 0 ]
              ELSE [ value |-> NullVal, getter |-> 0, iter_column |-> 0 ]
         ELSE [ value |-> NullVal, getter |-> 0, iter_column |-> 0 ]
    ELSE IF sc.built /\ c.current_row < Len(sc.data)
    THEN [ value |-> column_get(sc.data[c.current_row + 1], col), getter |-> 1,
           iter_column |-> 0 ]
    ELSE [ value |-> NullVal, getter |-> 0, iter_column |-> 0 ]

cached_vtab_rowid(c) ==
    IF c.using_iterator /\ ~c.iterator.isnull
    THEN IF c.iterator_eof THEN 0 ELSE iter_rowid(c.iterator)
    ELSE c.current_row

\* ---- generator flavor ----

\* Variant: the full scan positions on the first row and reads one ahead.
generator_vtab_filter_reads_ahead(c, d, idxNum, argc, argv0, made, madeGen) ==
    LET reset == [ c EXCEPT !.generator = NullGen, !.generator_eof = FALSE,
                            !.iterator = NullIter, !.using_iterator = FALSE,
                            !.iterator_eof = FALSE ]
        first == IF madeGen.isnull THEN madeGen ELSE gen_next(madeGen)
        stepped == IF madeGen.isnull THEN madeGen ELSE gen_next(first)
    IN IF idxNum # FILTER_NONE /\ argc > 0 /\ filter_by_id(d, idxNum) # NoFilter
       THEN [ cursor |-> start_iterator(reset, made, argv0),
              fx |-> [ NoFx EXCEPT !.factory = 1 ],
              rc |-> SQLITE_OK ]
       ELSE IF ~d.generator_factory_fn.set
       THEN [ cursor |-> [ reset EXCEPT !.generator_eof = TRUE ],
              fx |-> NoFx,
              rc |-> SQLITE_OK ]
       ELSE [ cursor |-> [ reset EXCEPT
                             !.generator = stepped,
                             !.generator_eof = IF madeGen.isnull THEN TRUE
                                               ELSE ~first.last ],
              fx |-> [ NoFx EXCEPT !.generator_factory = 1 ],
              rc |-> SQLITE_OK ]

generator_vtab_filter(c, d, idxNum, argc, argv0, made, madeGen) ==
    LET reset == [ c EXCEPT !.generator = NullGen, !.generator_eof = FALSE,
                            !.iterator = NullIter, !.using_iterator = FALSE,
                            !.iterator_eof = FALSE ]
        stepped == IF madeGen.isnull THEN madeGen ELSE gen_next(madeGen)
    IN IF idxNum # FILTER_NONE /\ argc > 0 /\ filter_by_id(d, idxNum) # NoFilter
       THEN [ cursor |-> start_iterator(reset, made, argv0),
              fx |-> [ NoFx EXCEPT !.factory = 1 ],
              rc |-> SQLITE_OK ]
       ELSE IF ~d.generator_factory_fn.set
       THEN [ cursor |-> [ reset EXCEPT !.generator_eof = TRUE ],
              fx |-> NoFx,
              rc |-> SQLITE_OK ]
       ELSE [ cursor |-> [ reset EXCEPT
                             !.generator = stepped,
                             !.generator_eof = IF madeGen.isnull THEN TRUE
                                               ELSE ~stepped.last ],
              fx |-> [ NoFx EXCEPT !.generator_factory = 1 ],
              rc |-> SQLITE_OK ]

generator_vtab_next(c) ==
    IF c.using_iterator /\ ~c.iterator.isnull
    THEN LET stepped == iter_next(c.iterator) IN
         [ c EXCEPT !.iterator = stepped,
                    !.iterator_eof = IF ~stepped.last THEN TRUE ELSE @ ]
    ELSE IF c.generator.isnull THEN [ c EXCEPT !.generator_eof = TRUE ]
    ELSE LET stepped == gen_next(c.generator) IN
         [ c EXCEPT !.generator = stepped,
                    !.generator_eof = IF ~stepped.last THEN TRUE ELSE @ ]

generator_vtab_eof(c) ==
    IF c.using_iterator
    THEN IF c.iterator.isnull \/ c.iterator_eof THEN 1
         ELSE IF iter_eof(c.iterator) THEN 1 ELSE 0
    ELSE IF c.generator.isnull \/ c.generator_eof THEN 1 ELSE 0

\* Variant: the stream branch does not look at generator_eof.
generator_vtab_column_ignores_eof(c, d, col) ==
    IF col < 0 \/ col >= Len(d.columns) THEN [ value |-> NullVal, getter |-> 0, iter_column |-> 0 ]
    ELSE IF c.using_iterator /\ ~c.iterator.isnull
    THEN IF c.iterator_eof THEN [ value |-> NullVal, getter |-> 0, iter_column |-> 0 ]
         ELSE [ value |-> iter_column(c.iterator, col), getter |-> 0, iter_column |-> 1 ]
    ELSE IF c.generator.isnull
    THEN [ value |-> NullVal, getter |-> 0, iter_column |-> 0 ]
    ELSE [ value |-> column_get(gen_current(c.generator), col), getter |-> 1,
           iter_column |-> 0 ]

generator_vtab_column(c, d, col) ==
    IF col < 0 \/ col >= Len(d.columns) THEN [ value |-> NullVal, getter |-> 0, iter_column |-> 0 ]
    ELSE IF c.using_iterator /\ ~c.iterator.isnull
    THEN IF c.iterator_eof THEN [ value |-> NullVal, getter |-> 0, iter_column |-> 0 ]
         ELSE [ value |-> iter_column(c.iterator, col), getter |-> 0, iter_column |-> 1 ]
    ELSE IF c.generator.isnull \/ c.generator_eof
    THEN [ value |-> NullVal, getter |-> 0, iter_column |-> 0 ]
    ELSE [ value |-> column_get(gen_current(c.generator), col), getter |-> 1,
           iter_column |-> 0 ]

\* gen_rowid: whether the generator's rowid() was called.
generator_vtab_rowid(c) ==
    IF c.using_iterator /\ ~c.iterator.isnull
    THEN [ rowid |-> IF c.iterator_eof THEN 0 ELSE iter_rowid(c.iterator), gen_rowid |-> 0 ]
    ELSE IF c.generator.isnull \/ c.generator_eof THEN [ rowid |-> 0, gen_rowid |-> 0 ]
    ELSE [ rowid |-> gen_rowid(c.generator), gen_rowid |-> 1 ]

\* ---- the module slots of the definition's flavor ----

xEof(c, d, sc) ==
    CASE d.flavor = "live"      -> vtab_eof(c)
      [] d.flavor = "cached"    -> cached_vtab_eof(c, sc)
      [] d.flavor = "generator" -> generator_vtab_eof(c)

xNext(c, d) ==
    CASE d.flavor = "live"      -> vtab_next(c)
      [] d.flavor = "cached"    -> cached_vtab_next(c)
      [] d.flavor = "generator" -> generator_vtab_next(c)

xColumn(c, d, sc, h, col) ==
    CASE d.flavor = "live"      -> vtab_column(c, d, h, col)
      [] d.flavor = "cached"    -> cached_vtab_column(c, d, sc, col)
      [] d.flavor = "generator" -> generator_vtab_column(c, d, col)

xRowid(c, d) ==
    CASE d.flavor = "live"      -> vtab_rowid(c)
      [] d.flavor = "cached"    -> cached_vtab_rowid(c)
      [] d.flavor = "generator" -> generator_vtab_rowid(c).rowid

xFilter(c, d, sc, h, idxNum, argc, argv0, made, madeGen) ==
    CASE d.flavor = "live" ->
            LET r == vtab_filter(c, d, h, idxNum, argc, argv0, made) IN
            [ cursor |-> r.cursor, cache |-> sc, fx |-> r.fx, rc |-> r.rc ]
      [] d.flavor = "cached" ->
            cached_vtab_filter(c, d, sc, h, idxNum, argc, argv0, made)
      [] d.flavor = "generator" ->
            LET r == generator_vtab_filter(c, d, idxNum, argc, argv0, made, madeGen) IN
            [ cursor |-> r.cursor, cache |-> sc, fx |-> r.fx, rc |-> r.rc ]

-----------------------------------------------------------------------------
(* Registration: identifiers, cloned definitions, the engine's module table *)

MaxClones == 2          \* definitions cloned over one run

\* A const char*: the null pointer, or the characters before the terminator.
NullName == [ null |-> TRUE, chars |-> << >> ]
Name(chars) == [ null |-> FALSE, chars |-> chars ]

\* std::isalnum in the "C" locale
isalnum(ch) ==
    ch \in { "a", "b", "c", "d", "e", "f", "g", "h", "i", "j", "k", "l", "m",
             "n", "o", "p", "q", "r", "s", "t", "u", "v", "w", "x", "y", "z",
             "A", "B", "C", "D", "E", "F", "G", "H", "I", "J", "K", "L", "M",
             "N", "O", "P", "Q", "R", "S", "T", "U", "V", "W", "X", "Y", "Z",
             "0", "1", "2", "3", "4", "5", "6", "7", "8", "9" }

\* Variant: an empty name passes.
is_valid_sql_identifier_allows_empty(name) ==
    /\ ~name.null
    /\ \A i \in 1..Len(name.chars) : isalnum(name.chars[i]) \/ name.chars[i] = "_"

is_valid_sql_identifier(name) ==
    /\ ~name.null /\ Len(name.chars) > 0
    /\ \A i \in 1..Len(name.chars) : isalnum(name.chars[i]) \/ name.chars[i] = "_"

\* Pointers handed to the engine as pAux.
NullDef == [ kind |-> "null", id |-> 0 ]
OrigDef == [ kind |-> "orig", id |-> 0 ]
CloneDef(id) == [ kind |-> "clone", id |-> id ]

\* Variant: no copy is made, the caller's object itself is handed on.
clone_def_aliases(hp, src, alloc_ok) ==
    [ heap |-> hp, ptr |-> src ]

\* detail::clone_def: new (std::nothrow) T(*src)
clone_def(hp, src, alloc_ok) ==
    IF src.kind = "null" \/ ~alloc_ok THEN [ heap |-> hp, ptr |-> NullDef ]
    ELSE [ heap |-> Append(hp, [ content |-> orig.content, frees |-> 0 ]),
           ptr  |-> CloneDef(Len(hp) + 1) ]

\* detail::destroy_def and `delete owned`: one more delete of the clone.
destroy_def(hp, p) ==
    IF p.kind = "clone" THEN [ hp EXCEPT ![p.id].frees = @ + 1 ] ELSE hp

\* One connection as the engine sees it.
\* modules: name -> pAux; tables: <<table name, module name>> pairs.
NoConn == [ open |-> TRUE, modules |-> [ n \in {} |-> NullDef ], tables |-> {} ]

\* xDestroy of every pAux in ps
RECURSIVE destroy_all(_, _)
destroy_all(hp, ps) ==
    IF ps = {} THEN hp
    ELSE LET p == CHOOSE q \in ps : TRUE IN destroy_all(destroy_def(hp, p), ps \ {p})

\* sqlite3_create_module_v2 with destroy_def as xDestroy. "ok" installs the
\* module and destroys the pAux of a module it replaces; a failing call
\* runs xDestroy on the new pAux ("fail_destroy") unless it fails on its
\* argument check ("fail").
EngineOutcomes == { "ok", "fail_destroy", "fail" }

sqlite3_create_module_v2(hp, conn, name, pAux, outcome) ==
    IF outcome = "ok"
    THEN [ rc   |-> SQLITE_OK,
           heap |-> IF name.chars \in DOMAIN conn.modules
                    THEN destroy_def(hp, conn.modules[name.chars]) ELSE hp,
           conn |-> [ conn EXCEPT !.modules =
                        [ n \in DOMAIN @ \cup { name.chars } |->
                            IF n = name.chars THEN pAux ELSE @[n] ] ] ]
    ELSE [ rc   |-> SQLITE_ERROR,
           heap |-> IF outcome = "fail_destroy" THEN destroy_def(hp, pAux) ELSE hp,
           conn |-> conn ]

\* register_vtable, register_cached_vtable, register_generator_vtable; db is
\* a connection number, 0 for the null pointer.
register_vtable(hp, en, db, module_name, defp, alloc_ok, outcome) ==
    IF db = 0 \/ module_name.null \/ defp.kind = "null"
    THEN [ result |-> FALSE, heap |-> hp, eng |-> en, create_module |-> 0 ]
    ELSE LET owned == clone_def(hp, defp, alloc_ok) IN
         IF owned.ptr.kind = "null"
         THEN [ result |-> FALSE, heap |-> hp, eng |-> en, create_module |-> 0 ]
         ELSE LET r == sqlite3_create_module_v2(owned.heap, en[db], module_name,
                                                owned.ptr, outcome)
              IN IF r.rc # SQLITE_OK
                 THEN [ result |-> FALSE, heap |-> destroy_def(r.heap, owned.ptr),
                        eng |-> [ en EXCEPT ![db] = r.conn ], create_module |-> 1 ]
                 ELSE [ result |-> TRUE, heap |-> r.heap,
                        eng |-> [ en EXCEPT ![db] = r.conn ], create_module |-> 1 ]

\* The statement text, as the pieces that are concatenated.
create_sql(table_name, module_name) ==
    << "CREATE VIRTUAL TABLE ", table_name.chars, " USING ", module_name.chars, ";" >>

\* sqlite3_exec of a CREATE VIRTUAL TABLE statement: it succeeds when the
\* connection has the module and not yet the table.
sqlite3_exec(en, db, table_name, module_name) ==
    IF /\ db # 0
       /\ module_name.chars \in DOMAIN en[db].modules
       /\ \A t \in en[db].tables : t[1] # table_name.chars
    THEN [ rc  |-> SQLITE_OK,
           eng |-> [ en EXCEPT ![db].tables =
                       @ \cup { << table_name.chars, module_name.chars >> } ] ]
    ELSE [ rc |-> SQLITE_ERROR, eng |-> en ]

create_vtable(en, db, table_name, module_name) ==
    IF ~is_valid_sql_identifier(table_name) \/ ~is_valid_sql_identifier(module_name)
    THEN [ result |-> FALSE, eng |-> en, sql |-> << >>, exec |-> 0 ]
    ELSE LET r == sqlite3_exec(en, db, table_name, module_name) IN
         [ result |-> r.rc = SQLITE_OK, eng |-> r.eng,
           sql |-> create_sql(table_name, module_name), exec |-> 1 ]

\* create_writable_vtable; std::string(nullptr) is undefined, so the
\* callers of the model pass non-null names.
create_writable_vtable(en, db, table_name, module_name) ==
    LET r == sqlite3_exec(en, db, table_name, module_name) IN
    [ result |-> r.rc = SQLITE_OK, eng |-> r.eng,
      sql |-> create_sql(table_name, module_name), exec |-> 1 ]

\* Database::create_table; db_ is null when the database is not open.
create_table(en, db_, table_name, module_name) ==
    IF db_ = 0 THEN [ result |-> FALSE, eng |-> en, sql |-> << >>, exec |-> 0 ]
    ELSE create_vtable(en, db_, table_name, module_name)

-----------------------------------------------------------------------------
(* xUpdate: the members of VTableDef it reads and the three callbacks *)

MaxRows == 2            \* rows the host holds

\* name, columns (writable flag and whether a setter is set), and whether
\* delete_row, insert_row and before_modify hold a function.
EmptyWDef ==
    [ name            |-> "t",
      columns         |-> << >>,
      delete_row      |-> FALSE,
      supports_delete |-> FALSE,
      insert_row      |-> FALSE,
      supports_insert |-> FALSE,
      before_modify   |-> FALSE ]

\* One user callback invoked by xUpdate: which one, the string it was
\* given, the column it belongs to (-1: none) and what it returned.
Event(fn, text, col, ok) == [ fn |-> fn, text |-> text, col |-> col, ok |-> ok ]

\* A setter that succeeds stores the value in the host's row.
user_set(tbl, rowid, col_idx, v) ==
    IF rowid < Len(tbl) THEN [ tbl EXCEPT ![rowid + 1][col_idx + 1] = v ] ELSE tbl

\* A deleter that succeeds removes the host's row.
user_delete(tbl, rowid) ==
    IF rowid < Len(tbl)
    THEN [ i \in 1..(Len(tbl) - 1) |-> IF i <= rowid THEN tbl[i] ELSE tbl[i + 1] ]
    ELSE tbl

\* What the user callbacks of one call answer: set[col_idx], del, ins.
Outcomes(w) ==
    [ set : [ 0..(Len(w.columns) - 1) -> BOOLEAN ], del : BOOLEAN, ins : BOOLEAN ]

\* Variant: the loop calls every setter that is set, writable or not.
RECURSIVE set_loop_ignores_writable(_, _, _, _, _, _, _)
set_loop_ignores_writable(w, tbl, old_rowid, argv, i, oc, log) ==
    IF ~(i < Len(argv) /\ i - 2 < Len(w.columns))
    THEN [ rc |-> SQLITE_OK, log |-> log, table |-> tbl ]
    ELSE LET col_idx == i - 2
             col == w.columns[col_idx + 1]
         IN IF col.set
            THEN IF ~oc.set[col_idx]
                 THEN [ rc    |-> SQLITE_ERROR,
                        log   |-> Append(log, Event("set", "", col_idx, FALSE)),
                        table |-> tbl ]
                 ELSE set_loop_ignores_writable(w,
                               user_set(tbl, old_rowid, col_idx,
                                        sqlite3_value_int64(argv[i + 1])),
                               old_rowid, argv, i + 1, oc,
                               Append(log, Event("set", "", col_idx, TRUE)))
            ELSE set_loop_ignores_writable(w, tbl, old_rowid, argv, i + 1, oc, log)

\* The for loop of the UPDATE branch, from argv index i on.
RECURSIVE set_loop(_, _, _, _, _, _, _)
set_loop(w, tbl, old_rowid, argv, i, oc, log) ==
    IF ~(i < Len(argv) /\ i - 2 < Len(w.columns))
    THEN [ rc |-> SQLITE_OK, log |-> log, table |-> tbl ]
    ELSE LET col_idx == i - 2
             col == w.columns[col_idx + 1]
         IN IF col.writable /\ col.set
            THEN IF ~oc.set[col_idx]
                 THEN [ rc    |-> SQLITE_ERROR,
                        log   |-> Append(log, Event("set", "", col_idx, FALSE)),
                        table |-> tbl ]
                 ELSE set_loop(w,
                               user_set(tbl, old_rowid, col_idx,
                                        sqlite3_value_int64(argv[i + 1])),
                               old_rowid, argv, i + 1, oc,
                               Append(log, Event("set", "", col_idx, TRUE)))
            ELSE set_loop(w, tbl, old_rowid, argv, i + 1, oc, log)

\* Variant: the hook runs after the deleter, setters and inserter.
vtab_update_hook_last(w, tbl, argv, oc) ==
    LET argc == Len(argv)
        hook(text) == IF w.before_modify
                      THEN << Event("before_modify", text \o w.name, -1, TRUE) >>
                      ELSE << >>
    IN IF argc = 1 /\ argv[1] # NullVal
       THEN IF ~w.supports_delete \/ ~w.delete_row
            THEN [ rc |-> SQLITE_READONLY, log |-> << >>, table |-> tbl ]
            ELSE LET rowid == sqlite3_value_int64(argv[1])
                     log == << Event("delete_row", "", -1, oc.del) >>
                                \o hook("DELETE FROM ")
                 IN IF ~oc.del
                    THEN [ rc |-> SQLITE_ERROR, log |-> log, table |-> tbl ]
                    ELSE [ rc |-> SQLITE_OK, log |-> log,
                           table |-> user_delete(tbl, rowid) ]
       ELSE IF argc > 1 /\ argv[1] # NullVal
       THEN LET r == set_loop(w, tbl, sqlite3_value_int64(argv[1]), argv, 2, oc, << >>)
            IN [ r EXCEPT !.log = @ \o hook("UPDATE ") ]
       ELSE IF argc > 1 /\ argv[1] = NullVal
       THEN IF ~w.supports_insert \/ ~w.insert_row
            THEN [ rc |-> SQLITE_READONLY, log |-> << >>, table |-> tbl ]
            ELSE LET log == << Event("insert_row", "", -1, oc.ins) >>
                                \o hook("INSERT INTO ")
                 IN IF ~oc.ins
                    THEN [ rc |-> SQLITE_ERROR, log |-> log, table |-> tbl ]
                    ELSE [ rc |-> SQLITE_OK, log |-> log,
                           table |-> Append(tbl, [ k \in 1..(argc - 2) |->
                                                     sqlite3_value_int64(argv[k + 2]) ]) ]
       ELSE [ rc |-> SQLITE_READONLY, log |-> << >>, table |-> tbl ]

\* Variant: the supports_delete and supports_insert opt-ins are not tested.
vtab_update_no_opt_in(w, tbl, argv, oc) ==
    LET argc == Len(argv)
        hook(text) == IF w.before_modify
                      THEN << Event("before_modify", text \o w.name, -1, TRUE) >>
                      ELSE << >>
    IN IF argc = 1 /\ argv[1] # NullVal
       THEN LET rowid == sqlite3_value_int64(argv[1])
                log == hook("DELETE FROM ")
                          \o << Event("delete_row", "", -1, oc.del) >>
            IN IF ~oc.del
               THEN [ rc |-> SQLITE_ERROR, log |-> log, table |-> tbl ]
               ELSE [ rc |-> SQLITE_OK, log |-> log, table |-> user_delete(tbl, rowid) ]
       ELSE IF argc > 1 /\ argv[1] # NullVal
       THEN set_loop(w, tbl, sqlite3_value_int64(argv[1]), argv, 2, oc, hook("UPDATE "))
       ELSE IF argc > 1 /\ argv[1] = NullVal
       THEN LET log == hook("INSERT INTO ")
                          \o << Event("insert_row", "", -1, oc.ins) >>
            IN IF ~oc.ins
               THEN [ rc |-> SQLITE_ERROR, log |-> log, table |-> tbl ]
               ELSE [ rc |-> SQLITE_OK, log |-> log,
                      table |-> Append(tbl, [ k \in 1..(argc - 2) |->
                                                sqlite3_value_int64(argv[k + 2]) ]) ]
       ELSE [ rc |-> SQLITE_READONLY, log |-> << >>, table |-> tbl ]

\* vtab_update: argc = 1 with a rowid is DELETE, argc > 1 with a rowid is
\* UPDATE, argc > 1 with a null argv[0] is INSERT.
vtab_update(w, tbl, argv, oc) ==
    LET argc == Len(argv)
        hook(text) == IF w.before_modify
                      THEN << Event("before_modify", text \o w.name, -1, TRUE) >>
                      ELSE << >>
    IN IF argc = 1 /\ argv[1] # NullVal
       THEN IF ~w.supports_delete \/ ~w.delete_row
            THEN [ rc |-> SQLITE_READONLY, log |-> << >>, table |-> tbl ]
            ELSE LET rowid == sqlite3_value_int64(argv[1])
                     log == hook("DELETE FROM ")
                               \o << Event("delete_row", "", -1, oc.del) >>
                 IN IF ~oc.del
                    THEN [ rc |-> SQLITE_ERROR, log |-> log, table |-> tbl ]
                    ELSE [ rc |-> SQLITE_OK, log |-> log,
                           table |-> user_delete(tbl, rowid) ]
       ELSE IF argc > 1 /\ argv[1] # NullVal
       THEN set_loop(w, tbl, sqlite3_value_int64(argv[1]), argv, 2, oc, hook("UPDATE "))
       ELSE IF argc > 1 /\ argv[1] = NullVal
       THEN IF ~w.supports_insert \/ ~w.insert_row
            THEN [ rc |-> SQLITE_READONLY, log |-> << >>, table |-> tbl ]
            ELSE LET log == hook("INSERT INTO ")
                               \o << Event("insert_row", "", -1, oc.ins) >>
                 IN IF ~oc.ins
                    THEN [ rc |-> SQLITE_ERROR, log |-> log, table |-> tbl ]
                    ELSE [ rc |-> SQLITE_OK, log |-> log,
                           table |-> Append(tbl, [ k \in 1..(argc - 2) |->
                                                     sqlite3_value_int64(argv[k + 2]) ]) ]
       ELSE [ rc |-> SQLITE_READONLY, log |-> << >>, table |-> tbl ]

\* Variant: the cached flavor runs the hook it holds before answering.
cached_vtab_update_runs_hook(w, sc, argv) ==
    [ rc    |-> SQLITE_READONLY,
      log   |-> IF w.before_modify
                THEN << Event("before_modify", "UPDATE " \o w.name, -1, TRUE) >>
                ELSE << >>,
      cache |-> sc ]

cached_vtab_update(w, sc, argv) ==
    [ rc |-> SQLITE_READONLY, log |-> << >>, cache |-> sc ]

generator_vtab_update(w, argv) ==
    [ rc |-> SQLITE_READONLY, log |-> << >> ]

\* mod.xUpdate of the three modules
xUpdate(d, w, tbl, sc, argv, oc) ==
    CASE d.flavor = "live" ->
            LET r == vtab_update(w, tbl, argv, oc) IN
            [ rc |-> r.rc, log |-> r.log, table |-> r.table, cache |-> sc ]
      [] d.flavor = "cached" ->
            LET r == cached_vtab_update(w, sc, argv) IN
            [ rc |-> r.rc, log |-> r.log, table |-> tbl, cache |-> r.cache ]
      [] d.flavor = "generator" ->
            LET r == generator_vtab_update(w, argv) IN
            [ rc |-> r.rc, log |-> r.log, table |-> tbl, cache |-> sc ]

-----------------------------------------------------------------------------
(* The socket server of xsql/socket: requests, configuration, the Server *)

MaxFields == 2          \* top-level fields of a request object
MaxRequests == 1        \* requests the server receives
MaxClients == 1         \* connections the server accepts

\* A top-level field of a request: its key and a string value, or a value
\* that is not a string (a number, an object, ...).
StrField(k, v) == [ key |-> k, str |-> TRUE,  val |-> v ]
NonStrField(k) == [ key |-> k, str |-> FALSE, val |-> "" ]

Fields ==
    { StrField("sql", "q"), StrField("token", "s"), StrField("token", "x"),
      NonStrField("token") }

\* A request payload: a JSON object with its fields in order, or a text
\* that is no JSON object.
Malformed == [ object |-> FALSE, fields |-> << >> ]
Requests ==
    { Malformed } \cup { [ object |-> TRUE, fields |-> fs ] : fs \in SeqsUpTo(Fields, MaxFields) }

\* The loop of detail::extract_top_level_string_field from field i on: a
\* field named as asked must be a string and overwrites out; any other
\* value is skipped.
RECURSIVE extract_fields_loop(_, _, _, _)
extract_fields_loop(fields, field, i, value) ==
    IF i > Len(fields) THEN [ ok |-> TRUE, out |-> value ]
    ELSE IF fields[i].key = field
    THEN IF fields[i].str THEN extract_fields_loop(fields, field, i + 1, fields[i].val)
         ELSE [ ok |-> FALSE, out |-> value ]
    ELSE extract_fields_loop(fields, field, i + 1, value)

extract_top_level_string_field(json, field) ==
    IF field = "" \/ ~json.object THEN [ ok |-> FALSE, out |-> "" ]
    ELSE extract_fields_loop(json.fields, field, 1, "")

extract_string_field(json, field) ==
    LET r == extract_top_level_string_field(json, field) IN
    IF field = "" THEN "" ELSE IF ~r.ok THEN "" ELSE r.out

extract_sql_from_request(json) == extract_string_field(json, "sql")

extract_token_from_request(json) == extract_string_field(json, "token")

\* QueryResult and what result_to_json writes of it: the success flag and,
\* for a failure, the error text.
QueryOk == [ success |-> TRUE, error |-> "" ]
QueryFail(msg) == [ success |-> FALSE, error |-> msg ]

\* What the user's query handler does with a statement.
HandlerOutcomes == {"ok", "throw"}

\* ServerConfig: auth_token, allow_insecure_no_auth (left at its default)
\* and bind_address (its four numbers).
ServerConfigs ==
    { [ auth_token |-> t, allow_insecure_no_auth |-> FALSE, bind_address |-> b ] :
        t \in {"", "s"}, b \in { <<127, 0, 0, 1>>, <<0, 0, 0, 0>> } }

is_loopback_bind_address(addr) == addr = <<127, 0, 0, 1>> \/ addr[1] = 127

\* Variant: a request that carries no token passes the check.
handle_request_admits_missing_token(config, has_handler, request, outcome, sent) ==
    LET sql == extract_sql_from_request(request)
        token == extract_token_from_request(request)
        result == IF ~has_handler THEN QueryFail("No query handler configured")
                  ELSE IF outcome = "throw" THEN QueryFail("what")
                  ELSE QueryOk
    IN IF sql = ""
       THEN [ response |-> QueryFail("Invalid request: missing sql field"),
              handler_called |-> FALSE, keep_open |-> TRUE ]
       ELSE IF config.auth_token # "" /\ token # "" /\ token # config.auth_token
       THEN [ response |-> QueryFail("Unauthorized"),
              handler_called |-> FALSE, keep_open |-> TRUE ]
       ELSE [ response |-> result, handler_called |-> has_handler, keep_open |-> sent ]

\* One turn of the loop of Server::handle_client after recv_message
\* delivered request; sent tells whether send_message of the result worked.
handle_request(config, has_handler, request, outcome, sent) ==
    LET sql == extract_sql_from_request(request)
        token == extract_token_from_request(request)
        result == IF ~has_handler THEN QueryFail("No query handler configured")
                  ELSE IF outcome = "throw" THEN QueryFail("what")
                  ELSE QueryOk
    IN IF sql = ""
       THEN [ response |-> QueryFail("Invalid request: missing sql field"),
              handler_called |-> FALSE, keep_open |-> TRUE ]
       ELSE IF config.auth_token # "" /\ token # config.auth_token
       THEN [ response |-> QueryFail("Unauthorized"),
              handler_called |-> FALSE, keep_open |-> TRUE ]
       ELSE [ response |-> result, handler_called |-> has_handler, keep_open |-> sent ]

\* The last request the server handled.
NoExchange == [ made |-> FALSE, request |-> Malformed, response |-> QueryOk,
                handler_called |-> FALSE, keep_open |-> FALSE ]

\* The Server object (config_, query_handler_, running_, listen_sock_,
\* server_thread_), where its two threads stand, and what was observed:
\*   m           the caller's thread, w the thread of run_server
\*   thread      server_thread_: "none", "joinable" or "joined"
\*   closes      CLOSE_SOCKET calls made on the listening socket
\*   client      whether a client connection is open
\*   terminated  a joinable std::thread was destroyed (std::terminate)
NoSrv ==
    [ config |-> [ auth_token |-> "", allow_insecure_no_auth |-> FALSE,
                   bind_address |-> <<127, 0, 0, 1>> ],
      has_handler |-> FALSE, running |-> FALSE, listen_sock |-> "invalid",
      thread |-> "none", m |-> "off", w |-> "off", in_dtor |-> FALSE,
      stops |-> 0, stop_returned |-> FALSE, sockets |-> 0, closes |-> 0,
      client |-> FALSE, clients |-> 0, requests |-> 0, unauthorized |-> 0,
      last |-> NoExchange, destroyed |-> FALSE, terminated |-> FALSE ]

-----------------------------------------------------------------------------
(* SpecCursor: one cursor of a built definition, driven by the engine *)

\* The definitions the cursor runs against: columns a and b, optionally a
\* filter on a, and for the cached flavor optionally an index on b.
BuiltDef(flavor, withFilter, withIndex) ==
    LET d0 == column_add(column_add(EmptyDef(flavor), "a"), "b")
        d1 == IF flavor = "live" THEN count(d0, 0)
              ELSE IF flavor = "generator" THEN generator(d0) ELSE d0
        d2 == IF withFilter THEN filter_eq(d1, "a", 10, 10) ELSE d1
    IN IF withIndex THEN index_on(d2, "b") ELSE d2

\* A generator table built without a generator() call.
NoFactoryDef == [ BuiltDef("generator", TRUE, FALSE) EXCEPT !.generator_factory_fn = NoFn ]

CursorDefs ==
    { BuiltDef(f, TRUE, FALSE) : f \in {"live", "cached", "generator"} }
        \cup { BuiltDef("cached", wf, TRUE) : wf \in BOOLEAN }
        \cup { NoFactoryDef }

\* The WHERE clauses the engine plans: none, a = ?, b = ?.
Queries ==
    { << >> } \cup { << [ iColumn |-> col, op |-> "EQ", usable |-> TRUE ] >> : col \in 0..1 }

\* Bounds and idle values of SpecCache.
NumThreads == 2         \* threads, each driving one cursor at a time
MaxInvalidations == 1   \* invalidate_cache calls
MaxStaleSize == 1       \* size() read from a match vector that was freed

Threads == 1..NumThreads
NoThread == 0

\* The cached definition the threads query: columns a and b, an index on b.
CacheDef == BuiltDef("cached", FALSE, TRUE)

\* What the host holds when a cache_builder runs; the host may change it.
CacheHostDatas == { << <<0, 1>> >>, << <<1, 0>>, <<0, 0>> >> }

IndexKeys == {0}

NoHist == [ builder_calls |-> 0, invalidations |-> 0, built_from |-> << >>,
            dirty_input |-> FALSE ]

NoTPlan == [ idxNum |-> 0, key |-> 0, fallback |-> FALSE, dangling |-> FALSE ]

NoUpd == [ made |-> FALSE, argv |-> << >>, rc |-> SQLITE_OK, log |-> << >>,
           before |-> << >>, cache_before |-> EmptyCache ]

NoRCall == [ fn |-> "none", db |-> 0, table_name |-> NullName, module_name |-> NullName,
             defp |-> NullDef, result |-> FALSE, create_module |-> 0,
             sql |-> << >>, exec |-> 0, read |-> 0, expected |-> 0,
             heap_before |-> << >>, outcome |-> "ok" ]

RegisterSideIdle ==
    /\ heap = << >>
    /\ orig = [ alive |-> FALSE, content |-> 0 ]
    /\ eng = << >>
    /\ rcall = NoRCall

UpdateSideIdle ==
    /\ wdef = EmptyWDef
    /\ table = << >>
    /\ upd = NoUpd
    /\ RegisterSideIdle

CacheSideIdle ==
    /\ bcall = NoBCall
    /\ srv = NoSrv
    /\ mutex = NoThread
    /\ tpc = [ t \in Threads |-> "off" ]
    /\ tcur = [ t \in Threads |-> vtab_open ]
    /\ tplan = [ t \in Threads |-> NoTPlan ]
    /\ hist = NoHist

\* fx: the user callbacks the xFilter call invoked; rc: what it returned;
\* rows and built_before: the host's row count and the cache's built flag
\* when the call was made.
NoSeek == [ idxNum |-> 0, argc |-> 0, argv0 |-> NullVal, query |-> << >>,
            fx |-> NoFx, rc |-> SQLITE_OK, rows |-> 0,
            built_before |-> FALSE ]

NoProbe == [ made |-> FALSE, values |-> << >>, getter |-> 0, iter_column |-> 0,
             rowid |-> 0, gen_rowid |-> 0 ]

CursorSideIdle ==
    /\ host = << >>
    /\ cache = EmptyCache
    /\ cursor = vtab_open
    /\ pc = "idle"
    /\ seek = NoSeek
    /\ out = << >>
    /\ eofResult = 0
    /\ calls = NoFx
    /\ rowids = << >>
    /\ probe = NoProbe

InitCursor ==
    /\ UpdateSideIdle
    /\ def \in CursorDefs
    /\ host \in HostDatas
    /\ cache = EmptyCache
    /\ cursor = vtab_open
    /\ pc = "open"
    /\ seek = NoSeek
    /\ out = << >>
    /\ eofResult = 0
    /\ calls = NoFx
    /\ rowids = << >>
    /\ probe = NoProbe
    /\ phase = "built"
    /\ cons = << >>
    /\ pInfo = NoPlan
    /\ planCalls = [ row_count |-> 0, estimate_rows |-> 0, best_index |-> 0 ]
    /\ CacheSideIdle

AddFx(a, b) == [ k \in DOMAIN a |-> a[k] + b[k] ]

\* xFilter with the idxNum that best-index chose for the query and, when a
\* constraint was consumed, its right-hand side as argv[0]. The filter
\* factory and the generator factory are user code: any result is possible.
EngineFilter ==
    /\ pc \in {"open", "row", "done"}
    /\ \E q \in Queries :
          LET plan == best_index(def, q)
              argc == Cardinality({ i \in 1..Len(q) : plan.usage[i].argvIndex > 0 })
              dry == xFilter(cursor, def, cache, host, plan.idxNum, argc, NullVal,
                             NullIter, NullGen)
          IN \E v \in (IF argc > 0 THEN ArgValues ELSE { NullVal }),
                made \in (IF dry.fx.factory > 0 THEN FactoryResults ELSE { NullIter }),
                madeGen \in (IF dry.fx.generator_factory > 0 THEN GeneratorResults
                             ELSE { NullGen }) :
                LET r == xFilter(cursor, def, cache, host, plan.idxNum, argc, v,
                                 made, madeGen)
                IN /\ cursor' = r.cursor
                   /\ cache' = r.cache
                   /\ calls' = AddFx(NoFx, r.fx)
                   /\ seek' = [ idxNum |-> plan.idxNum, argc |-> argc, argv0 |-> v,
                                query |-> q,
                                fx |-> r.fx, rc |-> r.rc, rows |-> Len(host),
                                built_before |-> cache.built ]
    /\ out' = << >>
    /\ rowids' = << >>
    /\ probe' = NoProbe
    /\ pc' = "eof"
    /\ UNCHANGED <<def, host, eofResult>>
    /\ UNCHANGED otherThanCursor

\* xEof: the loop test.
EngineEof ==
    /\ pc \in {"eof", "late"}
    /\ eofResult' = xEof(cursor, def, cache)
    /\ pc' = IF eofResult' = 1 THEN "done" ELSE "row"
    /\ UNCHANGED <<def, host, cache, cursor, seek, out, calls, rowids, probe>>
    /\ UNCHANGED otherThanCursor

\* xColumn for every declared column of the current row, then xRowid; the
\* rowid entry records how many rows were delivered before this one.
EngineColumn ==
    /\ pc = "row"
    /\ LET c0 == xColumn(cursor, def, cache, host, 0)
           c1 == xColumn(cursor, def, cache, host, 1)
       IN /\ out' = Append(out, << c0.value, c1.value >>)
          /\ calls' = [ calls EXCEPT !.getter = @ + c0.getter + c1.getter,
                                     !.iter_column = @ + c0.iter_column + c1.iter_column ]
    /\ rowids' = Append(rowids, [ row |-> Len(out), rowid |-> xRowid(cursor, def) ])
    /\ pc' = "next"
    /\ UNCHANGED <<def, host, cache, cursor, seek, eofResult, probe>>
    /\ UNCHANGED otherThanCursor

\* xColumn for every declared column, then xRowid, after xEof returned true.
EngineColumnAtEof ==
    /\ pc = "done"
    /\ LET c0 == xColumn(cursor, def, cache, host, 0)
           c1 == xColumn(cursor, def, cache, host, 1)
       IN probe' = [ made        |-> TRUE,
                     values      |-> << c0.value, c1.value >>,
                     getter      |-> c0.getter + c1.getter,
                     iter_column |-> c0.iter_column + c1.iter_column,
                     rowid       |-> xRowid(cursor, def),
                     gen_rowid   |-> IF def.flavor = "generator"
                                     THEN generator_vtab_rowid(cursor).gen_rowid
                                     ELSE 0 ]
    /\ pc' = "probed"
    /\ UNCHANGED <<def, host, cache, cursor, seek, out, eofResult, calls, rowids>>
    /\ UNCHANGED otherThanCursor

\* Variant: xNext of a live scan asks row_count again.
EngineNext_resamples_total ==
    /\ pc = "next"
    /\ cursor' = IF def.flavor = "live" /\ ~cursor.using_iterator
                 THEN [ xNext(cursor, def) EXCEPT !.total = Len(host) ]
                 ELSE xNext(cursor, def)
    /\ calls' = IF def.flavor = "live" /\ ~cursor.using_iterator
                THEN [ calls EXCEPT !.row_count = @ + 1 ] ELSE calls
    /\ pc' = "eof"
    /\ UNCHANGED <<def, host, cache, seek, out, eofResult, rowids, probe>>
    /\ UNCHANGED otherThanCursor

\* xNext
EngineNext ==
    /\ pc = "next"
    /\ cursor' = xNext(cursor, def)
    /\ pc' = "eof"
    /\ UNCHANGED <<def, host, cache, seek, out, eofResult, calls, rowids, probe>>
    /\ UNCHANGED otherThanCursor

\* The host of a live table gains or loses rows while a statement runs.
LiveHostChange ==
    /\ def.flavor = "live"
    /\ pc = "eof"
    /\ \E h \in HostDatas : h # host /\ host' = h
    /\ UNCHANGED <<def, cache, cursorOnly>>
    /\ UNCHANGED otherThanCursor

NextCursor ==
    \/ EngineFilter
    \/ EngineEof
    \/ EngineColumn
    \/ EngineColumnAtEof
    \/ EngineNext
    \/ LiveHostChange

SpecCursor == InitCursor /\ [][NextCursor]_vars

-----------------------------------------------------------------------------
(* SpecLatch: a caller that goes on calling xNext after xEof returned true *)

\* next() calls the cursor's iterator and generator have answered, and the
\* steps xNext counted itself where there was none to ask.
NextAnswers(c) ==
    c.iterator.trues + c.iterator.falses + c.generator.trues + c.generator.falses
        + c.idx + c.current_row

InitLatch ==
    /\ InitCursor
    /\ host = << <<1, 0>> >>

\* xNext on a cursor in Filter or Stream mode whose xEof returned true; the
\* caller asks xEof again afterwards.
EngineNextAtEof ==
    /\ pc = "done"
    /\ cursor.using_iterator \/ def.flavor = "generator"
    /\ NextAnswers(cursor) <= MaxScript
    /\ cursor' = xNext(cursor, def)
    /\ pc' = "late"
    /\ UNCHANGED <<def, host, cache, seek, out, eofResult, calls, rowids, probe>>
    /\ UNCHANGED otherThanCursor

NextLatch ==
    \/ EngineFilter
    \/ EngineEof
    \/ EngineColumn
    \/ EngineNext
    \/ EngineNextAtEof

SpecLatch == InitLatch /\ [][NextLatch]_vars

-----------------------------------------------------------------------------
(* SpecCache: threads sharing the cache of one cached definition *)

InitCache ==
    /\ UpdateSideIdle
    /\ bcall = NoBCall
    /\ srv = NoSrv
    /\ def = CacheDef
    /\ host \in CacheHostDatas
    /\ cache = EmptyCache
    /\ mutex = NoThread
    /\ tpc = [ t \in Threads |-> "idle" ]
    /\ tcur = [ t \in Threads |-> vtab_open ]
    /\ tplan = [ t \in Threads |-> NoTPlan ]
    /\ hist = NoHist
    /\ cursor = vtab_open
    /\ pc = "idle"
    /\ seek = NoSeek
    /\ out = << >>
    /\ eofResult = 0
    /\ calls = NoFx
    /\ rowids = << >>
    /\ probe = NoProbe
    /\ phase = "built"
    /\ cons = << >>
    /\ pInfo = NoPlan
    /\ planCalls = [ row_count |-> 0, estimate_rows |-> 0, best_index |-> 0 ]

\* cached_vtab_filter, up to its call of ensure_cache_built: the cursor is
\* reset; idxNum is 0 (full scan) or INDEX_BASE (lookup of key in index 0).
TFilterBegin(t) ==
    /\ tpc[t] = "idle"
    /\ \E idxNum \in {FILTER_NONE, INDEX_BASE}, key \in IndexKeys :
          /\ idxNum = FILTER_NONE => key = 0
          /\ tplan' = [ tplan EXCEPT ![t] = [ idxNum |-> idxNum, key |-> key,
                                              fallback |-> FALSE, dangling |-> FALSE ] ]
    /\ tcur' = [ tcur EXCEPT ![t] = vtab_open ]
    /\ tpc' = [ tpc EXCEPT ![t] = "f_lock" ]
    /\ UNCHANGED <<cache, mutex, hist, host>>
    /\ UNCHANGED otherThanCache

\* ensure_cache_built: std::lock_guard lock(shared_cache->mutex)
TLock(t) ==
    /\ tpc[t] = "f_lock"
    /\ mutex = NoThread
    /\ mutex' = t
    /\ tpc' = [ tpc EXCEPT ![t] = "f_check" ]
    /\ UNCHANGED <<cache, tcur, tplan, hist, host>>
    /\ UNCHANGED otherThanCache

\* An ensure_cache_built that does not test built under the lock.
TCheckBuilt_always_builds(t) ==
    /\ tpc[t] = "f_check"
    /\ mutex' = mutex
    /\ tpc' = [ tpc EXCEPT ![t] = "f_build" ]
    /\ UNCHANGED <<cache, tcur, tplan, hist, host>>
    /\ UNCHANGED otherThanCache

\* ensure_cache_built: if (shared_cache->built) return;
TCheckBuilt(t) ==
    /\ tpc[t] = "f_check"
    /\ IF cache.built
       THEN /\ mutex' = NoThread
            /\ tpc' = [ tpc EXCEPT ![t] = "f_post" ]
       ELSE /\ mutex' = mutex
            /\ tpc' = [ tpc EXCEPT ![t] = "f_build" ]
    /\ UNCHANGED <<cache, tcur, tplan, hist, host>>
    /\ UNCHANGED otherThanCache

\* ensure_cache_built: cache_builder_fn(shared_cache->data)
TRunBuilder(t) ==
    /\ tpc[t] = "f_build"
    /\ cache' = [ cache EXCEPT !.data = cache_builder_fn(@, host) ]
    /\ hist' = [ hist EXCEPT !.builder_calls = @ + 1,
                             !.built_from = host,
                             !.dirty_input = @ \/ cache.data # << >> ]
    /\ tpc' = [ tpc EXCEPT ![t] = "f_index" ]
    /\ UNCHANGED <<mutex, tcur, tplan, host>>
    /\ UNCHANGED otherThanCache

\* ensure_cache_built: the "Build indexes" loops
TBuildIndexes(t) ==
    /\ tpc[t] = "f_index"
    /\ cache' = [ cache EXCEPT !.indexes = build_indexes(def, cache) ]
    /\ tpc' = [ tpc EXCEPT ![t] = "f_set" ]
    /\ UNCHANGED <<mutex, tcur, tplan, hist, host>>
    /\ UNCHANGED otherThanCache

\* ensure_cache_built: shared_cache->built = true; the lock_guard unlocks.
TSetBuilt(t) ==
    /\ tpc[t] = "f_set"
    /\ cache' = [ cache EXCEPT !.built = TRUE ]
    /\ mutex' = NoThread
    /\ tpc' = [ tpc EXCEPT ![t] = "f_post" ]
    /\ UNCHANGED <<tcur, tplan, hist, host>>
    /\ UNCHANGED otherThanCache

\* cached_vtab_filter after ensure_cache_built returned. An index plan reads
\* built and the index map; if the cache is not built at that moment the
\* code falls through to the full-scan path, which calls
\* ensure_cache_built a second time.
TFilterReturn(t) ==
    /\ tpc[t] = "f_post"
    /\ IF tplan[t].idxNum >= INDEX_BASE /\ ~tplan[t].fallback
       THEN /\ IF cache.built /\ (tplan[t].idxNum - INDEX_BASE) < Len(cache.indexes)
               THEN /\ tcur' = [ tcur EXCEPT ![t] =
                                   [ @ EXCEPT !.using_index = TRUE,
                                              !.index_matches =
                                                  IF tplan[t].key \in DOMAIN cache.indexes[1]
                                                  THEN PtrTo(0, tplan[t].key) ELSE NullPtr ] ]
                    /\ tplan' = [ tplan EXCEPT ![t].dangling = FALSE ]
                    /\ tpc' = [ tpc EXCEPT ![t] = "eof" ]
               ELSE /\ tplan' = [ tplan EXCEPT ![t].fallback = TRUE ]
                    /\ tpc' = [ tpc EXCEPT ![t] = "f_lock" ]
                    /\ tcur' = tcur
       ELSE /\ tcur' = [ tcur EXCEPT ![t] = [ @ EXCEPT !.using_index = FALSE,
                                                       !.current_row = 0 ] ]
            /\ tplan' = tplan
            /\ tpc' = [ tpc EXCEPT ![t] = "eof" ]
    /\ UNCHANGED <<cache, mutex, hist, host>>
    /\ UNCHANGED otherThanCache

\* The vector index_matches points to is still the one the lookup found.
MatchesValid(t) ==
    /\ cache.built
    /\ ~tplan[t].dangling
    /\ tcur[t].index_matches.index < Len(cache.indexes)
    /\ tcur[t].index_matches.key \in DOMAIN cache.indexes[tcur[t].index_matches.index + 1]

\* cached_vtab_eof: reads built and data.size(), or the match vector, without
\* the lock. A read through a dangling index_matches pointer has any outcome.
TEof(t) ==
    /\ tpc[t] = "eof"
    /\ \E r \in {0, 1} :
          /\ IF tcur[t].using_index /\ ~tcur[t].index_matches.null /\ ~MatchesValid(t)
             THEN r = 0 => tcur[t].index_pos < MaxStaleSize
             ELSE r = cached_vtab_eof(tcur[t], cache)
          /\ tpc' = [ tpc EXCEPT ![t] = IF r = 1 THEN "done" ELSE "row" ]
    /\ UNCHANGED <<cache, mutex, tcur, tplan, hist, host>>
    /\ UNCHANGED otherThanCache

\* cached_vtab_column: reads the row vector without the lock.
TColumn(t) ==
    /\ tpc[t] = "row"
    /\ tpc' = [ tpc EXCEPT ![t] = "next" ]
    /\ UNCHANGED <<cache, mutex, tcur, tplan, hist, host>>
    /\ UNCHANGED otherThanCache

\* cached_vtab_next
TNext(t) ==
    /\ tpc[t] = "next"
    /\ tcur' = [ tcur EXCEPT ![t] = cached_vtab_next(@) ]
    /\ tpc' = [ tpc EXCEPT ![t] = "eof" ]
    /\ UNCHANGED <<cache, mutex, tplan, hist, host>>
    /\ UNCHANGED otherThanCache

\* cached_vtab_close: the cursor is deleted.
TClose(t) ==
    /\ tpc[t] = "done"
    /\ tpc' = [ tpc EXCEPT ![t] = "idle" ]
    /\ tcur' = [ tcur EXCEPT ![t] = vtab_open ]
    /\ tplan' = [ tplan EXCEPT ![t] = NoTPlan ]
    /\ UNCHANGED <<cache, mutex, hist, host>>
    /\ UNCHANGED otherThanCache

\* An invalidate_cache that does not take the mutex.
TInvLock_without_mutex(t) ==
    /\ tpc[t] = "idle"
    /\ hist.invalidations < MaxInvalidations
    /\ mutex' = mutex
    /\ hist' = [ hist EXCEPT !.invalidations = @ + 1 ]
    /\ tpc' = [ tpc EXCEPT ![t] = "i_data" ]
    /\ UNCHANGED <<cache, tcur, tplan, host>>
    /\ UNCHANGED otherThanCache

\* invalidate_cache: std::lock_guard lock(shared_cache->mutex)
TInvLock(t) ==
    /\ tpc[t] = "idle"
    /\ hist.invalidations < MaxInvalidations
    /\ mutex = NoThread
    /\ mutex' = t
    /\ hist' = [ hist EXCEPT !.invalidations = @ + 1 ]
    /\ tpc' = [ tpc EXCEPT ![t] = "i_data" ]
    /\ UNCHANGED <<cache, tcur, tplan, host>>
    /\ UNCHANGED otherThanCache

\* An invalidate_cache that forgets to clear the row vector.
TInvData_keeps_rows(t) ==
    /\ tpc[t] = "i_data"
    /\ cache' = cache
    /\ tpc' = [ tpc EXCEPT ![t] = "i_indexes" ]
    /\ UNCHANGED <<mutex, tcur, tplan, hist, host>>
    /\ UNCHANGED otherThanCache

\* invalidate_cache: shared_cache->data.clear()
TInvData(t) ==
    /\ tpc[t] = "i_data"
    /\ cache' = [ cache EXCEPT !.data = << >> ]
    /\ tpc' = [ tpc EXCEPT ![t] = "i_indexes" ]
    /\ UNCHANGED <<mutex, tcur, tplan, hist, host>>
    /\ UNCHANGED otherThanCache

\* invalidate_cache: shared_cache->indexes.clear(); every match vector is
\* freed, so the index_matches pointers of open cursors dangle from here on.
TInvIndexes(t) ==
    /\ tpc[t] = "i_indexes"
    /\ cache' = [ cache EXCEPT !.indexes = << >> ]
    /\ tplan' = [ u \in Threads |->
                    IF tcur[u].using_index /\ ~tcur[u].index_matches.null
                    THEN [ tplan[u] EXCEPT !.dangling = TRUE ]
                    ELSE tplan[u] ]
    /\ tpc' = [ tpc EXCEPT ![t] = "i_built" ]
    /\ UNCHANGED <<mutex, tcur, hist, host>>
    /\ UNCHANGED otherThanCache

\* invalidate_cache: shared_cache->built = false; the lock_guard unlocks.
TInvBuilt(t) ==
    /\ tpc[t] = "i_built"
    /\ cache' = [ cache EXCEPT !.built = FALSE ]
    /\ mutex' = NoThread
    /\ tpc' = [ tpc EXCEPT ![t] = "idle" ]
    /\ UNCHANGED <<tcur, tplan, hist, host>>
    /\ UNCHANGED otherThanCache

\* The host's data changes after a build (only a later cache_builder run
\* sees it).
HostChange ==
    /\ cache.built
    /\ \E h \in CacheHostDatas : h # host /\ host' = h
    /\ UNCHANGED <<cache, mutex, tpc, tcur, tplan, hist>>
    /\ UNCHANGED otherThanCache

NextCache ==
    \/ \E t \in Threads : TFilterBegin(t)
    \/ \E t \in Threads : TLock(t)
    \/ \E t \in Threads : TCheckBuilt(t)
    \/ \E t \in Threads : TRunBuilder(t)
    \/ \E t \in Threads : TBuildIndexes(t)
    \/ \E t \in Threads : TSetBuilt(t)
    \/ \E t \in Threads : TFilterReturn(t)
    \/ \E t \in Threads : TEof(t)
    \/ \E t \in Threads : TColumn(t)
    \/ \E t \in Threads : TNext(t)
    \/ \E t \in Threads : TClose(t)
    \/ \E t \in Threads : TInvLock(t)
    \/ \E t \in Threads : TInvData(t)
    \/ \E t \in Threads : TInvIndexes(t)
    \/ \E t \in Threads : TInvBuilt(t)
    \/ HostChange

SpecCache == InitCache /\ [][NextCache]_vars

-----------------------------------------------------------------------------
(* SpecPlan: build a definition, then plan queries against it *)

InitPlan ==
    /\ UpdateSideIdle
    /\ \E f \in Flavors : def = EmptyDef(f)
    /\ phase = "building"
    /\ cons = << >>
    /\ pInfo = NoPlan
    /\ planCalls = [ row_count |-> 0, estimate_rows |-> 0, best_index |-> 0 ]
    /\ CursorSideIdle
    /\ CacheSideIdle

DeclaredNames(d) == { d.columns[i] : i \in 1..Len(d.columns) }

BuilderColumn ==
    /\ phase = "building"
    /\ Len(def.columns) < MaxCols
    /\ Len(def.columns) < Len(ColumnNames)
    /\ def' = column_add(def, ColumnNames[Len(def.columns) + 1])
    /\ UNCHANGED <<phase, cons, pInfo, planCalls>>
    /\ UNCHANGED otherThanPlan

BuilderFilterEq ==
    /\ phase = "building"
    /\ def.flavor # "writable"
    /\ Len(def.filters) < MaxFilters
    /\ \E name \in DeclaredNames(def) \cup {UnknownColumn}, cost \in FilterCosts, rows \in FilterRows :
          /\ def' = filter_eq(def, name, cost, rows)
          /\ def' # def
    /\ UNCHANGED <<phase, cons, pInfo, planCalls>>
    /\ UNCHANGED otherThanPlan

BuilderIndexOn ==
    /\ phase = "building"
    /\ def.flavor = "cached"
    /\ Len(def.index_defs) < MaxIndexes
    /\ \E name \in DeclaredNames(def) \cup {UnknownColumn} :
          /\ find_index(def, find_column(def, name)) < 0    \* one index per column
          /\ def' = index_on(def, name)
          /\ def' # def
    /\ UNCHANGED <<phase, cons, pInfo, planCalls>>
    /\ UNCHANGED otherThanPlan

BuilderEstimateRows ==
    /\ phase = "building"
    /\ def.flavor # "writable"
    /\ ~def.estimate_rows.set
    /\ \E n \in EstimateValues : def' = estimate_rows(def, n)
    /\ UNCHANGED <<phase, cons, pInfo, planCalls>>
    /\ UNCHANGED otherThanPlan

BuilderCount ==
    /\ phase = "building"
    /\ def.flavor \in {"live", "writable"}
    /\ ~def.row_count.set
    /\ \E n \in HostCounts : def' = count(def, n)
    /\ UNCHANGED <<phase, cons, pInfo, planCalls>>
    /\ UNCHANGED otherThanPlan

\* build(): the definition is final. A live or writable table needs count().
BuilderBuild ==
    /\ phase = "building"
    /\ def.flavor \in {"live", "writable"} => def.row_count.set
    /\ phase' = "built"
    /\ UNCHANGED <<def, cons, pInfo, planCalls>>
    /\ UNCHANGED otherThanPlan

\* The engine calls xBestIndex with some constraint list.
BestIndex ==
    /\ phase = "built"
    /\ \E cs \in SeqsUpTo(Constraints, MaxConstraints) :
          LET r == best_index(def, cs) IN
          /\ cons' = cs
          /\ pInfo' = r
          /\ planCalls' = [ row_count     |-> r.row_count_calls,
                            estimate_rows |-> r.estimate_calls,
                            best_index    |-> 1 ]
    /\ phase' = "planned"
    /\ UNCHANGED def
    /\ UNCHANGED otherThanPlan

\* The engine has read the sqlite3_index_info and discards it; xBestIndex
\* keeps nothing between calls, so the next call starts from here.
BestIndexDone ==
    /\ phase = "planned"
    /\ phase' = "built"
    /\ cons' = << >>
    /\ pInfo' = NoPlan
    /\ planCalls' = [ row_count |-> 0, estimate_rows |-> 0, best_index |-> 0 ]
    /\ UNCHANGED def
    /\ UNCHANGED otherThanPlan

NextPlan ==
    \/ BuilderColumn
    \/ BuilderFilterEq
    \/ BuilderIndexOn
    \/ BuilderEstimateRows
    \/ BuilderCount
    \/ BuilderBuild
    \/ BestIndex
    \/ BestIndexDone

SpecPlan == InitPlan /\ [][NextPlan]_vars

\* SpecIndexPlan: xBestIndex on cached definitions with columns a and b, a
\* filter of cost 10 on one of them and an index on one or both.
IndexedDefs ==
    { index_on(index_on(filter_eq(BuiltDef("cached", FALSE, FALSE), f, 10, 10), i1), i2) :
        f \in {"a", "b"}, i1 \in {"a", "b"}, i2 \in {"a", "b", UnknownColumn} }

InitIndexPlan ==
    /\ UpdateSideIdle
    /\ def \in IndexedDefs
    /\ phase = "built"
    /\ cons = << >>
    /\ pInfo = NoPlan
    /\ planCalls = [ row_count |-> 0, estimate_rows |-> 0, best_index |-> 0 ]
    /\ CursorSideIdle
    /\ CacheSideIdle

NextIndexPlan ==
    \/ BestIndex
    \/ BestIndexDone

SpecIndexPlan == InitIndexPlan /\ [][NextIndexPlan]_vars

-----------------------------------------------------------------------------
(* SpecUpdate: write opt-ins of the builder, then xUpdate calls *)

\* A cache that an earlier query has built.
BuiltCache == ensure_cache_built(EmptyDef("cached"), EmptyCache, << <<0, 1>> >>)

InitUpdate ==
    /\ \E f \in {"live", "cached", "generator"} : def = EmptyDef(f)
    /\ phase = "building"
    /\ wdef = EmptyWDef
    /\ table = << >>
    /\ upd = NoUpd
    /\ RegisterSideIdle
    /\ cons = << >>
    /\ pInfo = NoPlan
    /\ planCalls = [ row_count |-> 0, estimate_rows |-> 0, best_index |-> 0 ]
    /\ host = << >>
    /\ cache \in (IF def.flavor = "cached" THEN { EmptyCache, BuiltCache }
                  ELSE { EmptyCache })
    /\ cursor = vtab_open
    /\ pc = "idle"
    /\ seek = NoSeek
    /\ out = << >>
    /\ eofResult = 0
    /\ calls = NoFx
    /\ rowids = << >>
    /\ probe = NoProbe
    /\ CacheSideIdle

\* column_int64 (read-only, no setter) or column_int64_rw; only the live
\* builder has the _rw form.
WColumn ==
    /\ phase = "building"
    /\ Len(wdef.columns) < MaxCols
    /\ \E rw \in (IF def.flavor = "live" THEN BOOLEAN ELSE { FALSE }) :
          wdef' = [ wdef EXCEPT !.columns =
                      Append(@, [ writable |-> rw, set |-> rw ]) ]
    /\ UNCHANGED <<def, phase, cache, table, upd>>
    /\ UNCHANGED otherThanUpdate

\* A ColumnDef the host constructs itself: writable without a setter, or a
\* setter on a column that is not writable.
WColumnDef ==
    /\ phase = "building"
    /\ def.flavor = "live"
    /\ Len(wdef.columns) < MaxCols
    /\ \E w \in BOOLEAN :
          wdef' = [ wdef EXCEPT !.columns =
                      Append(@, [ writable |-> w, set |-> ~w ]) ]
    /\ UNCHANGED <<def, phase, cache, table, upd>>
    /\ UNCHANGED otherThanUpdate

\* deletable(fn); fn may be an empty std::function
WDeletable ==
    /\ phase = "building"
    /\ def.flavor = "live"
    /\ ~wdef.supports_delete
    /\ \E fn \in BOOLEAN :
          wdef' = [ wdef EXCEPT !.supports_delete = TRUE, !.delete_row = fn ]
    /\ UNCHANGED <<def, phase, cache, table, upd>>
    /\ UNCHANGED otherThanUpdate

\* insertable(fn)
WInsertable ==
    /\ phase = "building"
    /\ def.flavor = "live"
    /\ ~wdef.supports_insert
    /\ \E fn \in BOOLEAN :
          wdef' = [ wdef EXCEPT !.supports_insert = TRUE, !.insert_row = fn ]
    /\ UNCHANGED <<def, phase, cache, table, upd>>
    /\ UNCHANGED otherThanUpdate

\* on_modify(fn) of VTableBuilder and of CachedTableBuilder
WOnModify ==
    /\ phase = "building"
    /\ def.flavor \in {"live", "cached"}
    /\ ~wdef.before_modify
    /\ wdef' = [ wdef EXCEPT !.before_modify = TRUE ]
    /\ UNCHANGED <<def, phase, cache, table, upd>>
    /\ UNCHANGED otherThanUpdate

\* build() and registration; the host of a live table holds one row.
WBuild ==
    /\ phase = "building"
    /\ Len(wdef.columns) > 0
    /\ phase' = "built"
    /\ table' = IF def.flavor = "live"
                THEN << [ k \in 1..Len(wdef.columns) |-> 0 ] >>
                ELSE << >>
    /\ UNCHANGED <<def, cache, wdef, upd>>
    /\ UNCHANGED otherThanUpdate

\* The argument vectors a caller passes: DELETE, UPDATE and INSERT of row 0
\* with new value k in the k-th column, an UPDATE that carries one value
\* less than there are columns, and a lone null.
ArgShapes(w) ==
    LET values == [ k \in 1..Len(w.columns) |-> IntVal(k) ] IN
    { << IntVal(0) >>,
      << NullVal >>,
      << IntVal(0), IntVal(0) >> \o values,
      << IntVal(0), IntVal(0) >> \o SubSeq(values, 1, Len(values) - 1),
      << NullVal, NullVal >> \o values }

\* One xUpdate call.
XUpdate ==
    /\ phase = "built"
    /\ \E argv \in ArgShapes(wdef), oc \in Outcomes(wdef) :
          LET r == xUpdate(def, wdef, table, cache, argv, oc) IN
          /\ Len(r.table) <= MaxRows
          /\ table' = r.table
          /\ cache' = r.cache
          /\ upd' = [ made |-> TRUE, argv |-> argv, rc |-> r.rc, log |-> r.log,
                      before |-> table, cache_before |-> cache ]
    /\ UNCHANGED <<def, phase, wdef>>
    /\ UNCHANGED otherThanUpdate

NextUpdate ==
    \/ WColumn
    \/ WColumnDef
    \/ WDeletable
    \/ WInsertable
    \/ WOnModify
    \/ WBuild
    \/ XUpdate

SpecUpdate == InitUpdate /\ [][NextUpdate]_vars

-----------------------------------------------------------------------------
(* SpecDelete: DELETE FROM tasks WHERE done = 1 on the live tasks table *)

NumTasks == 4

\* The tasks table of the example: column a is the id, column b is done;
\* count(), on_modify(), deletable(); done is the writable column.
TasksDef == BuiltDef("live", FALSE, FALSE)

TasksWDef ==
    [ EmptyWDef EXCEPT !.columns = << [ writable |-> FALSE, set |-> FALSE ],
                                      [ writable |-> TRUE,  set |-> TRUE ] >>,
                       !.delete_row = TRUE,
                       !.supports_delete = TRUE,
                       !.before_modify = TRUE ]

\* The host's vector: tasks 1..NumTasks, each done or not.
TaskTables ==
    { [ i \in 1..NumTasks |-> << i, done[i] >> ] : done \in [ 1..NumTasks -> {0, 1} ] }

\* The example's deleter and setters always return true.
TasksOutcome ==
    [ set |-> [ c \in 0..1 |-> TRUE ], del |-> TRUE, ins |-> TRUE ]

InitDelete ==
    /\ def = TasksDef
    /\ wdef = TasksWDef
    /\ host \in TaskTables
    /\ table = << >>
    /\ upd = NoUpd
    /\ RegisterSideIdle
    /\ cache = EmptyCache
    /\ cursor = vtab_open
    /\ pc = "open"
    /\ seek = NoSeek
    /\ out = << >>
    /\ eofResult = 0
    /\ calls = NoFx
    /\ rowids = << >>
    /\ probe = NoProbe
    /\ phase = "built"
    /\ cons = << >>
    /\ pInfo = NoPlan
    /\ planCalls = [ row_count |-> 0, estimate_rows |-> 0, best_index |-> 0 ]
    /\ CacheSideIdle

\* The second pass of the statement: the engine takes the next rowid its
\* scan collected and, when that row had done = 1, calls xUpdate with it.
\* upd keeps the host as it was before the first call and the callbacks of
\* all calls of the statement.
EngineDeleteRow ==
    /\ pc \in {"done", "deleting"}
    /\ rowids # << >>
    /\ LET next == Head(rowids)
           matched == out[next.row + 1][2] = IntVal(1)
           argv == << IntVal(next.rowid) >>
           r == vtab_update(wdef, host, argv, TasksOutcome)
       IN IF matched
          THEN /\ host' = r.table
               /\ upd' = [ made |-> TRUE, argv |-> argv, rc |-> r.rc,
                           log |-> upd.log \o r.log,
                           before |-> IF upd.made THEN upd.before ELSE host,
                           cache_before |-> cache ]
          ELSE UNCHANGED <<host, upd>>
    /\ rowids' = Tail(rowids)
    /\ pc' = "deleting"
    /\ UNCHANGED <<cache, cursor, seek, out, eofResult, calls, probe>>
    /\ UNCHANGED <<def, planOnly, cacheOnly, registerOnly, bcall, srv, wdef, table>>

NextDelete ==
    \/ EngineFilter
    \/ EngineEof
    \/ EngineColumn
    \/ EngineNext
    \/ EngineDeleteRow

SpecDelete == InitDelete /\ [][NextDelete]_vars

-----------------------------------------------------------------------------
(* SpecRegister: registration and table creation on two connections *)

Conns == {1, 2}

\* The names callers pass: null, empty, an identifier, and names with a
\* space, a semicolon, a quote and a minus.
GoodName == Name(<< "t", "_", "1", "Z" >>)

NameInputs ==
    { NullName, Name(<< >>), GoodName,
      Name(<< "t", " " >>), Name(<< ";" >>), Name(<< "'", "t" >>),
      Name(<< "a", "-", "b" >>) }

\* Table and module name of one create call: at least one is an identifier.
NamePairs ==
    { p \in NameInputs \X NameInputs : p[1] = GoodName \/ p[2] = GoodName }

\* Module names of the register calls.
RegisterNames == { NullName, GoodName, Name(<< "t", " " >>), Name(<< ";" >>) }

\* What the definition holds while the caller's object lives, and what a
\* destroyed object's memory holds.
DefContent == 1
Garbage == 0

\* What a read through pAux can yield; reading a deleted object is undefined.
DerefValues(hp, p) ==
    IF p.kind = "clone"
    THEN IF hp[p.id].frees = 0 THEN { hp[p.id].content }
         ELSE { hp[p.id].content, Garbage }
    ELSE IF orig.alive THEN { orig.content } ELSE { DefContent, Garbage }

InitRegister ==
    /\ heap = << >>
    /\ orig = [ alive |-> TRUE, content |-> DefContent ]
    /\ eng = [ c \in Conns |-> NoConn ]
    /\ rcall = NoRCall
    /\ def = EmptyDef("live")
    /\ phase = "built"
    /\ cons = << >>
    /\ pInfo = NoPlan
    /\ planCalls = [ row_count |-> 0, estimate_rows |-> 0, best_index |-> 0 ]
    /\ CursorSideIdle
    /\ CacheSideIdle
    /\ wdef = EmptyWDef
    /\ table = << >>
    /\ upd = NoUpd

OpenConns == { c \in Conns : eng[c].open }

\* One register_* call. A module that tables of the connection use is not
\* registered again.
Register ==
    /\ rcall.fn = "none"
    /\ Len(heap) < MaxClones
    /\ \E db \in OpenConns \cup {0}, name \in RegisterNames,
          defp \in { NullDef } \cup (IF orig.alive THEN { OrigDef } ELSE {}),
          alloc_ok \in BOOLEAN, outcome \in EngineOutcomes :
          /\ db # 0 => \A t \in eng[db].tables : t[2] # name.chars
          /\ LET r == register_vtable(heap, eng, db, name, defp, alloc_ok, outcome) IN
             /\ heap' = r.heap
             /\ eng' = r.eng
             /\ rcall' = [ NoRCall EXCEPT !.fn = "register_vtable", !.db = db,
                                          !.module_name = name, !.defp = defp,
                                          !.result = r.result,
                                          !.create_module = r.create_module,
                                          !.heap_before = heap,
                                          !.outcome = IF r.create_module > 0
                                                      THEN outcome ELSE "ok" ]
    /\ UNCHANGED orig
    /\ UNCHANGED otherThanRegister

\* One call of a function that forms CREATE VIRTUAL TABLE, on a connection
\* that has no table yet.
CreateTable ==
    /\ rcall.fn = "none"
    /\ \E fn \in { "create_vtable", "create_writable_vtable", "create_table" },
          db \in OpenConns \cup {0}, pair \in NamePairs :
          LET tn == pair[1]
              mn == pair[2]
          IN
          /\ fn = "create_writable_vtable" => (~tn.null /\ ~mn.null)
          /\ db # 0 => eng[db].tables = {}
          /\ LET r == CASE fn = "create_vtable" -> create_vtable(eng, db, tn, mn)
                        [] fn = "create_writable_vtable" ->
                              create_writable_vtable(eng, db, tn, mn)
                        [] fn = "create_table" -> create_table(eng, db, tn, mn)
             IN /\ eng' = r.eng
                /\ rcall' = [ NoRCall EXCEPT !.fn = fn, !.db = db, !.table_name = tn,
                                             !.module_name = mn, !.result = r.result,
                                             !.sql = r.sql, !.exec = r.exec,
                                             !.heap_before = heap ]
    /\ UNCHANGED <<heap, orig>>
    /\ UNCHANGED otherThanRegister

\* The caller destroys its own definition object.
DropOriginal ==
    /\ rcall.fn = "none"
    /\ orig.alive
    /\ orig' = [ alive |-> FALSE, content |-> Garbage ]
    /\ UNCHANGED <<heap, eng, rcall>>
    /\ UNCHANGED otherThanRegister

\* sqlite3_close: the engine runs xDestroy for every module of the connection.
CloseConn ==
    /\ rcall.fn = "none"
    /\ \E c \in OpenConns :
          /\ heap' = destroy_all(heap, { eng[c].modules[n] : n \in DOMAIN eng[c].modules })
          /\ eng' = [ eng EXCEPT ![c] = [ NoConn EXCEPT !.open = FALSE ] ]
    /\ UNCHANGED <<orig, rcall>>
    /\ UNCHANGED otherThanRegister

\* A cursor of a created table reads the definition through the pAux of
\* its module.
Query ==
    /\ rcall.fn = "none"
    /\ \E c \in OpenConns : \E t \in eng[c].tables :
          \E v \in DerefValues(heap, eng[c].modules[t[2]]) :
             rcall' = [ NoRCall EXCEPT !.fn = "query", !.db = c,
                                      !.defp = eng[c].modules[t[2]],
                                      !.read = v, !.expected = DefContent,
                                      !.heap_before = heap ]
    /\ UNCHANGED <<heap, orig, eng>>
    /\ UNCHANGED otherThanRegister

\* The call has returned; the library keeps nothing of it.
CallDone ==
    /\ rcall.fn # "none"
    /\ rcall' = NoRCall
    /\ UNCHANGED <<heap, orig, eng>>
    /\ UNCHANGED otherThanRegister

NextRegister ==
    \/ Register
    \/ CreateTable
    \/ DropOriginal
    \/ CloseConn
    \/ Query
    \/ CallDone

SpecRegister == InitRegister /\ [][NextRegister]_vars

-----------------------------------------------------------------------------
(* SpecBuilder: any sequence of builder calls, the last one kept in bcall *)

BuilderFlavors == {"live", "cached", "generator"}

\* Names a call may pass: every name a column call can declare, declared
\* by now or not, and one that is never declared.
BuilderNames == { ColumnNames[i] : i \in 1..MaxCols } \cup {UnknownColumn}

BCall(fn, name) == [ fn |-> fn, column_name |-> name, before |-> def ]

InitBuilder ==
    /\ \E f \in BuilderFlavors : def = EmptyDef(f)
    /\ phase = "building"
    /\ cons = << >>
    /\ pInfo = NoPlan
    /\ planCalls = [ row_count |-> 0, estimate_rows |-> 0, best_index |-> 0 ]
    /\ UpdateSideIdle
    /\ CursorSideIdle
    /\ CacheSideIdle

CallColumn ==
    /\ Len(def.columns) < MaxCols
    /\ LET name == ColumnNames[Len(def.columns) + 1] IN
          /\ def' = column_add(def, name)
          /\ bcall' = BCall("column", name)
    /\ UNCHANGED otherThanBuilder

CallFilterEq ==
    /\ Len(def.filters) < MaxFilters
    /\ \E fn \in {"filter_eq", "filter_eq_text"}, name \in BuilderNames :
          /\ def' = filter_eq(def, name, 1, 10)
          /\ bcall' = BCall(fn, name)
    /\ UNCHANGED otherThanBuilder

CallIndexOn ==
    /\ def.flavor = "cached"
    /\ Len(def.index_defs) < MaxIndexes
    /\ \E name \in BuilderNames :
          /\ def' = index_on(def, name)
          /\ bcall' = BCall("index_on", name)
    /\ UNCHANGED otherThanBuilder

\* The host registers filters on its first column in a loop.
CallFilterEqLoop ==
    /\ def.flavor = "cached"
    /\ Len(def.columns) = 1
    /\ Len(def.filters) < MaxFilterCalls
    /\ bcall.fn # "filter_eq loop"
    /\ def' = filter_eq_loop(def, ColumnNames[1], 1, 10,
                             MaxFilterCalls - Len(def.filters))
    /\ bcall' = BCall("filter_eq loop", ColumnNames[1])
    /\ UNCHANGED otherThanBuilder

NextBuilder ==
    \/ CallColumn
    \/ CallFilterEq
    \/ CallIndexOn
    \/ CallFilterEqLoop

SpecBuilder == InitBuilder /\ [][NextBuilder]_vars

-----------------------------------------------------------------------------
(* SpecServer: run_async, the thread of run_server, stop and ~Server *)

InitServer ==
    /\ def = EmptyDef("live")
    /\ phase = "building"
    /\ cons = << >>
    /\ pInfo = NoPlan
    /\ planCalls = [ row_count |-> 0, estimate_rows |-> 0, best_index |-> 0 ]
    /\ UpdateSideIdle
    /\ CursorSideIdle
    /\ bcall = NoBCall
    /\ mutex = NoThread
    /\ tpc = [ t \in Threads |-> "off" ]
    /\ tcur = [ t \in Threads |-> vtab_open ]
    /\ tplan = [ t \in Threads |-> NoTPlan ]
    /\ hist = NoHist
    /\ \E c \in ServerConfigs, h \in BOOLEAN :
          srv = [ NoSrv EXCEPT !.config = c, !.has_handler = h, !.m = "init" ]

\* run_async: server_thread_ = std::thread([this] { run_server(); })
RunAsync ==
    /\ srv.m = "init"
    /\ srv' = [ srv EXCEPT !.thread = "joinable", !.w = "w_socket", !.m = "m_wait" ]
    /\ UNCHANGED otherThanServer

\* run_async: the wait loop ends when running_ is seen true, or after its
\* hundred sleeps with running_ still false.
RunAsyncReturn ==
    /\ srv.m = "m_wait"
    /\ srv' = [ srv EXCEPT !.m = "m_ready" ]
    /\ UNCHANGED otherThanServer

\* The caller calls stop(), or the Server goes out of scope and ~Server
\* calls stop().
EnterStop ==
    /\ srv.m = "m_ready"
    /\ \E dtor \in BOOLEAN :
          /\ ~dtor => srv.stops < 1
          /\ srv' = [ srv EXCEPT !.m = "s_check", !.in_dtor = dtor,
                                 !.stops = IF dtor THEN @ ELSE @ + 1,
                                 !.stop_returned = FALSE ]
    /\ UNCHANGED otherThanServer

\* Where stop() returns to.
AfterStop(sv) == IF sv.in_dtor THEN "m_destroy" ELSE "m_ready"

\* stop: if (!running_) return; running_ = false;
StopCheck ==
    /\ srv.m = "s_check"
    /\ srv' = IF ~srv.running
              THEN [ srv EXCEPT !.m = AfterStop(srv), !.stop_returned = TRUE ]
              ELSE [ srv EXCEPT !.running = FALSE, !.m = "s_read" ]
    /\ UNCHANGED otherThanServer

\* stop: if (listen_sock_ != SOCKET_INVALID)
StopReadSock ==
    /\ srv.m = "s_read"
    /\ srv' = [ srv EXCEPT !.m = IF srv.listen_sock # "invalid" THEN "s_close"
                                 ELSE "s_join" ]
    /\ UNCHANGED otherThanServer

\* stop: CLOSE_SOCKET(listen_sock_); listen_sock_ = SOCKET_INVALID;
StopCloseSock ==
    /\ srv.m = "s_close"
    /\ srv' = [ srv EXCEPT !.closes = @ + 1, !.listen_sock = "invalid", !.m = "s_join" ]
    /\ UNCHANGED otherThanServer

\* stop: if (server_thread_.joinable()) server_thread_.join(); join waits
\* for run_server to return.
StopJoin ==
    /\ srv.m = "s_join"
    /\ srv.thread = "joinable" => srv.w = "finished"
    /\ srv' = [ srv EXCEPT !.thread = IF @ = "joinable" THEN "joined" ELSE @,
                           !.m = AfterStop(srv), !.stop_returned = TRUE ]
    /\ UNCHANGED otherThanServer

\* ~Server after its stop() returned: the members are destroyed; the
\* destructor of a joinable std::thread calls std::terminate.
Destroy ==
    /\ srv.m = "m_destroy"
    /\ srv' = [ srv EXCEPT !.m = "destroyed", !.destroyed = TRUE,
                           !.terminated = (srv.thread = "joinable") ]
    /\ UNCHANGED otherThanServer

\* run_server up to socket(): the refusal to bind a non-loopback address
\* without a token, then listen_sock_ = ::socket(...), which may fail.
ServerSocket ==
    /\ srv.w = "w_socket"
    /\ IF /\ ~srv.config.allow_insecure_no_auth
          /\ srv.config.auth_token = ""
          /\ ~is_loopback_bind_address(srv.config.bind_address)
       THEN srv' = [ srv EXCEPT !.w = "finished" ]
       ELSE \E ok \in BOOLEAN :
               srv' = IF ok
                      THEN [ srv EXCEPT !.listen_sock = "open", !.sockets = @ + 1,
                                        !.w = "w_bind" ]
                      ELSE [ srv EXCEPT !.w = "finished" ]
    /\ UNCHANGED otherThanServer

\* run_server: bind and listen; when either fails the socket is closed and
\* run_server returns false; otherwise running_ = true.
ServerBindListen ==
    /\ srv.w = "w_bind"
    /\ \E outcome \in {"bind failed", "listen failed", "ok"} :
          srv' = IF outcome = "ok"
                 THEN [ srv EXCEPT !.running = TRUE, !.w = "w_loop" ]
                 ELSE [ srv EXCEPT !.closes = @ + 1, !.listen_sock = "invalid",
                                   !.w = "finished" ]
    /\ UNCHANGED otherThanServer

\* run_server: while (running_) { accept ... }: the loop is left when
\* running_ is false; accept hands over a client only on a socket that was
\* not closed, otherwise it returns SOCKET_INVALID and the loop goes round.
ServerLoop ==
    /\ srv.w = "w_loop"
    /\ IF ~srv.running
       THEN srv' = [ srv EXCEPT !.w = "w_after" ]
       ELSE /\ srv.closes = 0
            /\ srv.clients < MaxClients
            /\ srv' = [ srv EXCEPT !.client = TRUE, !.clients = @ + 1,
                                   !.unauthorized = 0, !.w = "h_recv" ]
    /\ UNCHANGED otherThanServer

\* handle_client: while (running_ && recv_message(client, request)) { ... }
\* and the CLOSE_SOCKET(client) after the loop.
HandleRequest ==
    /\ srv.w = "h_recv"
    /\ \/ \* running_ is false, or recv_message failed
          srv' = [ srv EXCEPT !.client = FALSE, !.w = "w_loop" ]
       \/ /\ srv.running
          /\ srv.requests < MaxRequests
          /\ \E request \in Requests :
             LET dry == handle_request(srv.config, srv.has_handler, request, "ok", TRUE)
             IN \E outcome \in (IF dry.handler_called THEN HandlerOutcomes ELSE {"ok"}),
                   sent \in (IF dry.response.success \/ dry.handler_called
                                \/ dry.response.error = "No query handler configured"
                             THEN BOOLEAN ELSE {TRUE}) :
                LET r == handle_request(srv.config, srv.has_handler, request,
                                        outcome, sent)
                IN srv' = [ srv EXCEPT
                              !.requests = @ + 1,
                              !.unauthorized =
                                  IF r.response = QueryFail("Unauthorized")
                                     /\ ~r.handler_called THEN @ + 1 ELSE @,
                              !.last = [ made |-> TRUE, request |-> request,
                                         response |-> r.response,
                                         handler_called |-> r.handler_called,
                                         keep_open |-> r.keep_open ],
                              !.client = r.keep_open,
                              !.w = IF r.keep_open THEN "h_recv" ELSE "w_loop" ]
    /\ UNCHANGED otherThanServer

\* run_server after the loop: if (listen_sock_ != SOCKET_INVALID)
ServerReadSock ==
    /\ srv.w = "w_after"
    /\ srv' = [ srv EXCEPT !.w = IF srv.listen_sock # "invalid" THEN "w_close"
                                 ELSE "finished" ]
    /\ UNCHANGED otherThanServer

\* run_server: CLOSE_SOCKET(listen_sock_); listen_sock_ = SOCKET_INVALID;
\* return true.
ServerCloseSock ==
    /\ srv.w = "w_close"
    /\ srv' = [ srv EXCEPT !.closes = @ + 1, !.listen_sock = "invalid",
                           !.w = "finished" ]
    /\ UNCHANGED otherThanServer

NextServer ==
    \/ RunAsync
    \/ RunAsyncReturn
    \/ EnterStop
    \/ StopCheck
    \/ StopReadSock
    \/ StopCloseSock
    \/ StopJoin
    \/ Destroy
    \/ ServerSocket
    \/ ServerBindListen
    \/ ServerLoop
    \/ HandleRequest
    \/ ServerReadSock
    \/ ServerCloseSock

SpecServer == InitServer /\ [][NextServer]_vars

-----------------------------------------------------------------------------
(* Properties of the planner (SpecPlan) *)

Planned == phase = "planned"

PlanFlavors == {"live", "cached", "generator"}

UsableEq(cs) == { i \in 1..Len(cs) : cs[i].usable /\ cs[i].op = "EQ" }

MinOf(S) == CHOOSE x \in S : \A y \in S : x <= y

\* Cost of the baseline full scan: estimate_rows() or the flavor's default.
FullScanCost(d) ==
    IF d.estimate_rows.set THEN d.estimate_rows.value
    ELSE IF d.flavor = "live" THEN LiveDefaultEstimate
    ELSE IF d.flavor = "cached" THEN CachedDefaultEstimate
    ELSE GeneratorDefaultEstimate

\* Costs of the filters offered by the usable equality constraints.
FilterOptionCosts(d, cs) ==
    { d.filters[find_filter(d, cs[i].iColumn)].estimated_cost :
          i \in { j \in UsableEq(cs) : find_filter(d, cs[j].iColumn) # NoFilter } }

\* Usable equality constraints on an indexed column (cached flavor only).
IndexOptions(d, cs) ==
    IF d.flavor = "cached"
    THEN { i \in UsableEq(cs) : find_index(d, cs[i].iColumn) >= 0 }
    ELSE {}

OptionCosts(d, cs) ==
    {FullScanCost(d)} \cup FilterOptionCosts(d, cs)
        \cup (IF IndexOptions(d, cs) # {} THEN {IndexCost} ELSE {})

\* C4 (as claimed): best-index reports the minimum cost over the full scan
\* and the filter and index options of the usable equality constraints,
\* whatever the order of the constraints.
C4_MinCostSelected ==
    (Planned /\ def.flavor \in PlanFlavors)
        => pInfo.estimatedCost = MinOf(OptionCosts(def, cons))

\* C5 (as claimed): on equal cost an index beats a filter (cached flavor),
\* and a filter whose cost equals the full-scan estimate beats the full scan.
C5_TieBreakIndexFilterScan ==
    (Planned /\ def.flavor \in PlanFlavors) =>
        /\ ( /\ IndexOptions(def, cons) # {}
             /\ FilterOptionCosts(def, cons) # {}
             /\ MinOf(FilterOptionCosts(def, cons)) = IndexCost )
               => \E i \in IndexOptions(def, cons) :
                      pInfo.idxNum = INDEX_BASE + find_index(def, cons[i].iColumn)
        /\ ( /\ IndexOptions(def, cons) = {}
             /\ FilterOptionCosts(def, cons) # {}
             /\ MinOf(FilterOptionCosts(def, cons)) = FullScanCost(def) )
               => \E f \in 1..Len(def.filters) : pInfo.idxNum = def.filters[f].filter_id

\* The constraints whose usage entry was written by best-index.
Marked(usage) == { i \in 1..Len(usage) : usage[i] # [ argvIndex |-> 0, omit |-> 0 ] }

\* Constraint i supplied the option that pInfo describes.
Supplies(d, cs, i, info) ==
    /\ cs[i].usable
    /\ cs[i].op = "EQ"
    /\ \/ \E f \in 1..Len(d.filters) :
             /\ d.filters[f].column_index = cs[i].iColumn
             /\ info.idxNum = d.filters[f].filter_id
             /\ info.estimatedCost = d.filters[f].estimated_cost
             /\ info.estimatedRows = d.filters[f].estimated_rows
       \/ /\ d.flavor = "cached"
          /\ \E k \in 1..Len(d.index_defs) :
                /\ d.index_defs[k] = cs[i].iColumn
                /\ info.idxNum = INDEX_BASE + (k - 1)
          /\ info.estimatedCost = IndexCost
          /\ info.estimatedRows = IndexEstimatedRows

\* C6: best-index consumes at most one constraint: an optimized plan marks
\* argvIndex = 1, omit = 1 on exactly the usable EQ constraint that supplied
\* the reported option, and a full-scan plan (idxNum = 0) marks nothing.
C6_AtMostOneConstraintConsumed ==
    Planned =>
        /\ Len(pInfo.usage) = Len(cons)
        /\ IF pInfo.idxNum = FILTER_NONE
           THEN Marked(pInfo.usage) = {}
           ELSE \E i \in 1..Len(cons) :
                   /\ Marked(pInfo.usage) = {i}
                   /\ pInfo.usage[i] = [ argvIndex |-> 1, omit |-> 1 ]
                   /\ Supplies(def, cons, i, pInfo)

\* Two usable equality constraints both offer an option and one was consumed.
C6_Witness ==
    /\ Planned
    /\ pInfo.idxNum # FILTER_NONE
    /\ Len(cons) = 2
    /\ cons[1].iColumn # cons[2].iColumn
    /\ \A i \in 1..2 : /\ cons[i].usable
                       /\ cons[i].op = "EQ"
                       /\ find_filter(def, cons[i].iColumn) # NoFilter
    /\ def.filters[find_filter(def, cons[2].iColumn)].estimated_cost
           < def.filters[find_filter(def, cons[1].iColumn)].estimated_cost

\* C7 (as claimed): no planner callback invokes the authoritative row_count.
C7_PlannerNeverCallsRowCount == planCalls.row_count = 0

-----------------------------------------------------------------------------
(* Properties of the cursor (SpecCursor) *)

\* The cursor is in Filter mode over a non-null user iterator.
InFilterMode == pc \notin {"idle", "open"} /\ cursor.using_iterator /\ ~cursor.iterator.isnull

\* C1: over an iterator whose eof() is always false, the cursor reports eof
\* as soon as a next() returned false, and the engine loop ends after exactly
\* as many rows as next() returned true.
C1_ScanEndsOnNextFalse ==
    (InFilterMode /\ cursor.iterator.eof_mode = "never") =>
        /\ cursor.iterator.falses > 0 => xEof(cursor, def, cache) = 1
        /\ Len(out) <= cursor.iterator.trues
        /\ pc = "done" => /\ Len(out) = cursor.iterator.trues
                          /\ cursor.iterator.falses = 1

\* A scan over a never-eof iterator ended after two rows.
C1_Witness ==
    /\ InFilterMode
    /\ cursor.iterator.eof_mode = "never"
    /\ pc = "done"
    /\ Len(out) = 2
    /\ cursor.iterator.trues = 2

\* C2 (as claimed): in Filter mode, while the most recent next() returned
\* true the cursor's eof callback returns false, whatever the iterator's own
\* eof() says.
C2_EofDecidedByNextOnly ==
    (InFilterMode /\ cursor.iterator.last) => xEof(cursor, def, cache) = 0

\* SQL equality of an INTEGER column value x with the constraint value k.
SqlEq(x, k) ==
    CASE k.t = "int"  -> x = k.v
      [] k.t = "real" -> 2 * x = k.v
      [] k.t = "null" -> FALSE

\* The rows a full scan of data yields, kept when column col equals k.
RECURSIVE ScanFiltered(_, _, _)
ScanFiltered(data, col, k) ==
    IF data = << >> THEN << >>
    ELSE LET row == Head(data)
             rest == ScanFiltered(Tail(data), col, k)
         IN IF SqlEq(row[col + 1], k)
            THEN << << column_get(row, 0), column_get(row, 1) >> >> \o rest
            ELSE rest

Occurrences(seq, x) == Cardinality({ i \in 1..Len(seq) : seq[i] = x })

SameBag(s1, s2) ==
    /\ Len(s1) = Len(s2)
    /\ \A i \in 1..Len(s1) : Occurrences(s1, s1[i]) = Occurrences(s2, s1[i])

\* C3 (as claimed): the rows an index plan produces for c = k are the rows
\* of a full scan of the same cache filtered by c = k.
C3_IndexPlanEqualsFilteredScan ==
    (def.flavor = "cached" /\ pc = "done" /\ cursor.using_index /\ seek.idxNum >= INDEX_BASE)
        => SameBag(out, ScanFiltered(cache.data,
                                     def.index_defs[seek.idxNum - INDEX_BASE + 1],
                                     seek.argv0))

-----------------------------------------------------------------------------
(* Properties of the shared cache (SpecCache) *)

RECURSIVE Ascending(_)
Ascending(S) ==
    IF S = {} THEN << >>
    ELSE LET m == MinOf(S) IN << m >> \o Ascending(S \ {m})

\* The index maps that belong to a row vector: per index, each key that
\* occurs mapped to the positions holding it, in increasing order.
ExpectedIndexes(d, data) ==
    [ k \in 1..Len(d.index_defs) |->
        [ key \in { data[p][d.index_defs[k] + 1] : p \in 1..Len(data) } |->
            Ascending({ p \in 0..(Len(data) - 1) :
                          data[p + 1][d.index_defs[k] + 1] = key }) ] ]

Building == { t \in Threads : tpc[t] \in {"f_build", "f_index", "f_set"} }

\* Threads whose filter call got past ensure_cache_built.
PastEnsure == { t \in Threads : tpc[t] \in {"f_post", "eof", "row", "next", "done"} }

NextAccess(t) ==
    CASE tpc[t] = "f_check"   -> [ kind |-> "read",  field |-> "built" ]
      [] tpc[t] = "f_build"   -> [ kind |-> "write", field |-> "data" ]
      [] tpc[t] = "f_index"   -> [ kind |-> "write", field |-> "indexes" ]
      [] tpc[t] = "f_set"     -> [ kind |-> "write", field |-> "built" ]
      [] tpc[t] = "f_post" /\ tplan[t].idxNum >= INDEX_BASE /\ ~tplan[t].fallback
                              -> [ kind |-> "read",  field |-> "indexes" ]
      [] tpc[t] = "eof"       -> [ kind |-> "read",
                                   field |-> IF tcur[t].using_index THEN "indexes" ELSE "built" ]
      [] tpc[t] = "row"       -> [ kind |-> "read",  field |-> "data" ]
      [] tpc[t] = "i_data"    -> [ kind |-> "write", field |-> "data" ]
      [] tpc[t] = "i_indexes" -> [ kind |-> "write", field |-> "indexes" ]
      [] tpc[t] = "i_built"   -> [ kind |-> "write", field |-> "built" ]
      [] OTHER                -> [ kind |-> "none",  field |-> "none" ]

\* C9 (as claimed): every read or write of built, the row vector and the
\* index maps is made while holding the cache's mutex.
C9_EveryAccessHoldsMutex ==
    \A t \in Threads : NextAccess(t).kind # "none" => mutex = t

InCritical ==
    { t \in Threads : tpc[t] \in {"f_check", "f_build", "f_index", "f_set",
                                  "i_data", "i_indexes", "i_built"} }

\* C9 (amended): every write of built, the row vector and the index maps,
\* and the test of built inside ensure_cache_built, is made by the one
\* thread that holds the mutex, so builds and invalidations never overlap.
C9_WritesHoldMutex ==
    /\ \A t \in Threads : NextAccess(t).kind = "write" => mutex = t
    /\ Cardinality(InCritical) <= 1
    /\ \A t \in InCritical : mutex = t

\* An invalidation wrote the cache while another thread was inside a scan.
C9_Witness ==
    \E t, u \in Threads : /\ u # t
                          /\ NextAccess(t) = [ kind |-> "write", field |-> "built" ]
                          /\ tpc[t] = "i_built"
                          /\ mutex = t
                          /\ NextAccess(u).kind = "read"
                          /\ tpc[u] \in {"eof", "row"}

\* Threads in the middle of invalidate_cache, past its first write.
Invalidating == { t \in Threads : tpc[t] \in {"i_indexes", "i_built"} }

\* C10: invalidate_cache leaves the cache empty and not built, the next
\* cache_builder run starts from an empty row vector, and a built cache
\* holds exactly the rows of the most recent cache_builder run, with the
\* indexes of those rows.
C10_RebuildFromScratch ==
    /\ ~hist.dirty_input
    /\ (mutex = NoThread /\ ~cache.built) => (cache.data = << >> /\ cache.indexes = << >>)
    /\ (cache.built /\ Invalidating = {}) =>
          /\ cache.data = hist.built_from
          /\ cache.indexes = ExpectedIndexes(def, cache.data)

\* Build, invalidate, build again: the cache holds the one row of the
\* second build and nothing of the first.
C10_Witness ==
    /\ hist.invalidations = 1
    /\ hist.builder_calls = 2
    /\ cache.built
    /\ Len(cache.data) = 1
    /\ cache.data = hist.built_from

\* The positions of a row vector whose key under index k is v.
PositionsWithKey(d, data, k, v) ==
    { p \in 0..(Len(data) - 1) : data[p + 1][d.index_defs[k] + 1] = v }

IndexPlanOfCacheDef ==
    cached_vtab_best_index(CacheDef,
        << [ iColumn |-> 1, op |-> "EQ", usable |-> TRUE ] >>)

\* Threads whose cached_vtab_filter call has returned.
FilterReturned == { t \in Threads : tpc[t] \in {"eof", "row", "next", "done"} }

\* C36: a cursor filtered with the idxNum that best-index reported reads
\* its rows by the strategy of that idxNum: 0 as a full scan, INDEX_BASE + k
\* as a lookup in index k; a plan whose constraint was marked omit = 1 never
\* ends in an unfiltered full scan.
C36_FilterFollowsPlan ==
    \A t \in FilterReturned :
        /\ tplan[t].idxNum = FILTER_NONE => ~tcur[t].using_index
        /\ ( /\ tplan[t].idxNum = IndexPlanOfCacheDef.idxNum
             /\ \E i \in Marked(IndexPlanOfCacheDef.usage) :
                   IndexPlanOfCacheDef.usage[i].omit = 1 )
           => tcur[t].using_index

-----------------------------------------------------------------------------
(* Cached table queried through a registered filter                         *)

CachedFilterMode == def.flavor = "cached" /\ pc # "open" /\ cursor.using_iterator

\* C11: a query on a cached table that is answered through a registered
\* filter never runs cache_builder: not in the filter call, not in any
\* next, eof, column or rowid call that follows it, and the shared cache is
\* left as it was.
C11_FilterNeverBuildsCache ==
    CachedFilterMode =>
        /\ seek.fx.cache_builder = 0
        /\ calls.cache_builder = 0
        /\ cache.built = seek.built_before

\* A filtered query on a cached table whose cache is still unbuilt has
\* delivered a row.
C11_Witness ==
    /\ CachedFilterMode
    /\ ~cache.built
    /\ Len(out) > 0
    /\ rowids # << >>

-----------------------------------------------------------------------------
(* xColumn on a cursor that has reached end of data                         *)

\* C12: once a cursor has terminated (xEof returned true, which includes a
\* filter whose factory returned a null iterator and a scan whose position
\* reached the total), xColumn yields the engine's null for every column and
\* invokes neither a column getter nor the iterator's column method.
C12_ColumnAfterEndIsNull ==
    probe.made =>
        /\ \A i \in 1..Len(probe.values) : probe.values[i] = NullVal
        /\ probe.getter = 0
        /\ probe.iter_column = 0

-----------------------------------------------------------------------------
(* A filter factory that returns a null iterator                            *)

\* The last xFilter call went through a registered filter whose factory
\* returned null.
NullIteratorQuery ==
    pc # "open" /\ seek.fx.factory = 1 /\ cursor.iterator.isnull

\* C13: when the factory of the selected filter returns a null iterator,
\* xFilter still returns SQLITE_OK, xEof is true before any xNext, no row is
\* delivered, and nothing falls back: row_count, cache_builder and the
\* generator factory are not invoked.
C13_NullIteratorIsEmptyResult ==
    NullIteratorQuery =>
        /\ seek.rc = SQLITE_OK
        /\ cursor.using_iterator
        /\ xEof(cursor, def, cache) = 1
        /\ pc \in {"eof", "done", "probed"}
        /\ out = << >>
        /\ seek.fx.row_count = 0 /\ calls.row_count = 0
        /\ seek.fx.cache_builder = 0 /\ calls.cache_builder = 0
        /\ seek.fx.generator_factory = 0 /\ calls.generator_factory = 0
        /\ cache.built = seek.built_before

\* The engine saw end of data right after a filter call whose factory
\* returned null.
C13_Witness ==
    /\ NullIteratorQuery
    /\ pc = "done"
    /\ eofResult = 1
    /\ out = << >>

-----------------------------------------------------------------------------
(* Rowids of an index lookup on a cached table                              *)

\* C14: in IndexLookup mode of a cached table the rowid of a row is its
\* position within the match list: 0 for the first match and one more for
\* every xNext, so the rows of one lookup have distinct rowids.
C14_IndexRowidIsMatchPosition ==
    (def.flavor = "cached" /\ pc # "open" /\ cursor.using_index) =>
        /\ \A i \in 1..Len(rowids) : rowids[i].rowid = rowids[i].row
        /\ \A i, j \in 1..Len(rowids) :
              rowids[i].rowid = rowids[j].rowid => i = j

-----------------------------------------------------------------------------
(* row_count of a live table                                                *)

LiveQuery == def.flavor = "live" /\ pc # "open"

\* C15: on a live table a full-scan xFilter call invokes row_count exactly
\* once and stores the answer as the cursor's total; xNext, xEof, xColumn
\* and xRowid never invoke it, so the total stays what it was even when the
\* host's row count changes during the scan; an xFilter call that goes
\* through a registered filter does not invoke row_count at all.
C15_RowCountOncePerScan ==
    LiveQuery =>
        IF cursor.using_iterator
        THEN seek.fx.row_count = 0 /\ calls.row_count = 0
        ELSE /\ seek.fx.row_count = 1
             /\ calls.row_count = 1
             /\ cursor.total = seek.rows
             /\ (pc = "done" => Len(out) = cursor.total)

\* A full scan of a live table ran to its end, delivering rows, after the
\* host's row count had changed.
C15_Witness ==
    /\ LiveQuery
    /\ ~cursor.using_iterator
    /\ Len(host) # seek.rows
    /\ pc = "done"
    /\ Len(out) > 0
    /\ Len(out) = seek.rows

-----------------------------------------------------------------------------
(* Properties of xUpdate (SpecUpdate) *)

LiveUpdateCall == def.flavor = "live" /\ upd.made

IsDelete == Len(upd.argv) = 1 /\ upd.argv[1] # NullVal
IsUpdate == Len(upd.argv) > 1 /\ upd.argv[1] # NullVal
IsInsert == Len(upd.argv) > 1 /\ upd.argv[1] = NullVal

\* Positions in the log of the calls of one user callback.
CallsOf(fn) == { i \in 1..Len(upd.log) : upd.log[i].fn = fn }

\* C16: an UPDATE on a live table is never partially applied: when a setter
\* returns false the call returns SQLITE_ERROR and the host's rows are what
\* they were before the call.
C16_UpdateNotPartiallyApplied ==
    (LiveUpdateCall /\ IsUpdate /\ (\E i \in CallsOf("set") : ~upd.log[i].ok)) =>
        /\ upd.rc = SQLITE_ERROR
        /\ table = upd.before

\* The string before_modify is expected to receive for the call.
ExpectedHookText ==
    IF IsDelete THEN "DELETE FROM t"
    ELSE IF IsUpdate THEN "UPDATE t"
    ELSE "INSERT INTO t"

\* C17: an xUpdate call on a live table that is not rejected as read-only
\* invokes before_modify (when set) exactly once, with the string naming
\* the operation and the table, before the first setter, inserter or
\* deleter; a call rejected as read-only does not invoke it, and it is
\* never invoked after a user callback has failed.
C17_HookOnceBeforeCallbacks ==
    LiveUpdateCall =>
        /\ (upd.rc # SQLITE_READONLY /\ wdef.before_modify) =>
               /\ CallsOf("before_modify") = {1}
               /\ upd.log[1].text = ExpectedHookText
        /\ (upd.rc = SQLITE_READONLY \/ ~wdef.before_modify) =>
               CallsOf("before_modify") = {}
        /\ \A i, j \in 1..Len(upd.log) :
               (i < j /\ ~upd.log[i].ok) => upd.log[j].fn # "before_modify"

\* An UPDATE whose second setter failed after the hook and the first setter ran.
C17_Witness ==
    /\ LiveUpdateCall /\ IsUpdate
    /\ wdef.before_modify
    /\ Len(upd.log) = 3
    /\ upd.log[1].fn = "before_modify"
    /\ upd.log[2].ok /\ ~upd.log[3].ok
    /\ upd.rc = SQLITE_ERROR

\* The values an INSERT call carries from argv[2] on.
InsertedValues ==
    [ k \in 1..(Len(upd.argv) - 2) |-> sqlite3_value_int64(upd.argv[k + 2]) ]

\* C18: on a live table a DELETE call reaches delete_row only when
\* deletable was configured and an INSERT call reaches insert_row, with the
\* values from argv[2] on, only when insertable was configured; without the
\* opt-in the call returns SQLITE_READONLY and invokes no callback at all;
\* with it, a false return gives SQLITE_ERROR and a true return SQLITE_OK.
C18_DeleteInsertNeedOptIn ==
    LiveUpdateCall =>
        /\ IsDelete =>
              /\ ~wdef.supports_delete => (upd.rc = SQLITE_READONLY /\ upd.log = << >>)
              /\ (wdef.supports_delete /\ wdef.delete_row) =>
                    Cardinality(CallsOf("delete_row")) = 1
              /\ \A i \in CallsOf("delete_row") :
                    /\ wdef.supports_delete
                    /\ upd.rc = IF upd.log[i].ok THEN SQLITE_OK ELSE SQLITE_ERROR
              /\ CallsOf("insert_row") = {} /\ CallsOf("set") = {}
        /\ IsInsert =>
              /\ ~wdef.supports_insert => (upd.rc = SQLITE_READONLY /\ upd.log = << >>)
              /\ (wdef.supports_insert /\ wdef.insert_row) =>
                    Cardinality(CallsOf("insert_row")) = 1
              /\ \A i \in CallsOf("insert_row") :
                    /\ wdef.supports_insert
                    /\ upd.rc = IF upd.log[i].ok THEN SQLITE_OK ELSE SQLITE_ERROR
                    /\ upd.log[i].ok => table = Append(upd.before, InsertedValues)
              /\ CallsOf("delete_row") = {} /\ CallsOf("set") = {}

\* An INSERT was delegated and succeeded on a table that is insertable but
\* not deletable.
C18_Witness ==
    /\ LiveUpdateCall /\ IsInsert
    /\ wdef.supports_insert /\ ~wdef.supports_delete
    /\ upd.rc = SQLITE_OK
    /\ Len(table) = Len(upd.before) + 1

HasWritableColumn == \E k \in 1..Len(wdef.columns) : wdef.columns[k].writable

\* C19: a mutation of a live table that did not opt in returns
\* SQLITE_READONLY: DELETE without deletable, INSERT without insertable,
\* UPDATE on a definition without any writable column.
C19_NoOptInIsReadOnly ==
    LiveUpdateCall =>
        /\ (IsDelete /\ ~wdef.supports_delete) => upd.rc = SQLITE_READONLY
        /\ (IsInsert /\ ~wdef.supports_insert) => upd.rc = SQLITE_READONLY
        /\ (IsUpdate /\ ~HasWritableColumn) => upd.rc = SQLITE_READONLY

\* C20: xUpdate of the cached and of the generator flavor returns
\* SQLITE_READONLY whatever the arguments, invokes no user callback (the
\* on_modify hook of the cached builder included) and leaves the shared
\* cache and the rows as they were.
C20_CachedGeneratorReadOnly ==
    (def.flavor \in {"cached", "generator"} /\ upd.made) =>
        /\ upd.rc = SQLITE_READONLY
        /\ upd.log = << >>
        /\ cache = upd.cache_before
        /\ table = upd.before

\* A cached table with an on_modify hook and a built cache was asked to
\* update a row.
C20_Witness ==
    /\ def.flavor = "cached" /\ upd.made
    /\ wdef.before_modify
    /\ cache.built
    /\ Len(upd.argv) > 1 /\ upd.argv[1] # NullVal

-----------------------------------------------------------------------------
(* Properties of registration and table creation (SpecRegister) *)

\* The inputs that match [A-Za-z0-9_]+.
Identifiers == { GoodName }

BothIdentifiers ==
    rcall.table_name \in Identifiers /\ rcall.module_name \in Identifiers

\* C21: create_vtable hands a statement to the engine only when the table
\* name and the module name are both non-null, non-empty and made of
\* [A-Za-z0-9_]; for every other input it returns false and executes no SQL.
C21_CreateVtableValidatesNames ==
    rcall.fn = "create_vtable" =>
        /\ rcall.exec > 0 => BothIdentifiers
        /\ ~BothIdentifiers =>
              (~rcall.result /\ rcall.exec = 0 /\ rcall.sql = << >>)
        /\ (BothIdentifiers /\ rcall.db # 0) =>
              (rcall.exec = 1
               /\ rcall.sql = << "CREATE VIRTUAL TABLE ", GoodName.chars,
                                 " USING ", GoodName.chars, ";" >>)

\* create_vtable created a table of a registered module.
C21_Witness ==
    /\ rcall.fn = "create_vtable"
    /\ rcall.result
    /\ rcall.exec = 1
    /\ \E c \in OpenConns : eng[c].tables # {}

\* C22: register_vtable, register_cached_vtable and
\* register_generator_vtable called with a module name that is not an
\* identifier return false and install no module.
C22_RegisterRejectsBadName ==
    (rcall.fn = "register_vtable" /\ rcall.module_name \notin Identifiers) =>
        /\ ~rcall.result
        /\ rcall.create_module = 0
        /\ \A c \in OpenConns : rcall.module_name.chars \notin DOMAIN eng[c].modules

\* C23: every function that forms a CREATE VIRTUAL TABLE statement
\* (create_vtable, create_writable_vtable, Database::create_table) rejects
\* a table or module name that is not an identifier before any SQL text is
\* formed or executed.
C23_EveryCreateValidatesNames ==
    (rcall.fn \in { "create_vtable", "create_writable_vtable", "create_table" }
       /\ ~BothIdentifiers) =>
        /\ ~rcall.result
        /\ rcall.sql = << >>
        /\ rcall.exec = 0

\* The modules the engine holds: <<connection, module name>>.
Registrations ==
    { x \in Conns \X { n.chars : n \in RegisterNames } :
        eng[x[1]].open /\ x[2] \in DOMAIN eng[x[1]].modules }

\* C24: after a successful registration the engine holds its own clone of
\* the definition: whatever the caller does to its original and whichever
\* other connection is torn down, a cursor of a remaining registration
\* reads the definition as registered; no two registrations share a clone,
\* and the clone of a live registration has not been released.
C24_RegistrationOwnsClone ==
    /\ rcall.fn = "query" => rcall.read = rcall.expected
    /\ \A x \in Registrations :
          LET p == eng[x[1]].modules[x[2]] IN
          /\ p.kind = "clone"
          /\ heap[p.id].frees = 0
          /\ heap[p.id].content = DefContent
    /\ \A x, y \in Registrations :
          eng[x[1]].modules[x[2]] = eng[y[1]].modules[y[2]] => x = y

\* A cursor read the definition after the caller's original was destroyed
\* and the other connection, which had a registration of its own, was closed.
C24_Witness ==
    /\ rcall.fn = "query"
    /\ ~orig.alive
    /\ \E c \in Conns : ~eng[c].open
    /\ \E i \in 1..Len(heap) : heap[i].frees = 1
    /\ rcall.read = DefContent

NullArgument ==
    rcall.db = 0 \/ rcall.module_name.null \/ rcall.defp.kind = "null"

\* C25: register_* returns false without calling the engine when the
\* connection, the module name or the definition is null; when the
\* engine's create_module call fails it returns false and the clone made
\* for the attempt has been freed exactly once.
C25_FailedRegistrationFreesOnce ==
    rcall.fn = "register_vtable" =>
        /\ NullArgument => (~rcall.result /\ rcall.create_module = 0
                             /\ heap = rcall.heap_before)
        /\ (rcall.create_module = 1 /\ rcall.outcome # "ok") =>
              /\ ~rcall.result
              /\ Len(heap) = Len(rcall.heap_before) + 1
              /\ heap[Len(heap)].frees = 1

-----------------------------------------------------------------------------
(* Properties of the builders (SpecBuilder) *)

FilterCalls == {"filter_eq", "filter_eq_text"}

\* C26: every filter id of a definition lies in 1..999, whatever builder
\* calls made it, so it is neither 0 (full scan) nor an index plan id
\* INDEX_BASE + k.
C26_FilterIdsBelowIndexBase ==
    \A i \in 1..Len(def.filters) :
        def.filters[i].filter_id \in 1..(INDEX_BASE - 1)

\* C27: a definition never holds two filters on the same column, also
\* after two filter_eq / filter_eq_text calls that name the same column.
C27_OneFilterPerColumn ==
    \A i, j \in 1..Len(def.filters) :
        i # j => def.filters[i].column_index # def.filters[j].column_index

\* The last call named a column that its receiver had not declared.
DroppedCall ==
    /\ bcall.fn \in FilterCalls \cup {"index_on"}
    /\ find_column(bcall.before, bcall.column_name) < 0

\* C28: filter_eq, filter_eq_text and index_on naming an undeclared column
\* leave the definition as it was; every filter and index entry refers to a
\* declared column and the filter ids are 1..n in registration order.
C28_UnknownColumnIsDropped ==
    /\ DroppedCall => def = bcall.before
    /\ \A i \in 1..Len(def.filters) :
          /\ def.filters[i].filter_id = i
          /\ def.filters[i].column_index \in 0..(Len(def.columns) - 1)
    /\ \A i \in 1..Len(def.index_defs) :
          def.index_defs[i] \in 0..(Len(def.columns) - 1)

\* A filter call on a column declared only later was dropped after one
\* filter had been registered.
C28_Witness ==
    /\ DroppedCall
    /\ bcall.fn \in FilterCalls
    /\ bcall.column_name = ColumnNames[2]
    /\ Len(def.filters) = 1
    /\ def.filters[1].filter_id = 1

-----------------------------------------------------------------------------
(* Properties of the generator flavor (SpecCursor) *)

GeneratorQuery == def.flavor = "generator" /\ pc # "open"

\* next() calls the cursor's generator has answered.
GenNextCalls == cursor.generator.trues + cursor.generator.falses

\* xNext calls the engine made since the last xFilter call.
EngineNextCalls == IF pc = "next" THEN Len(out) - 1 ELSE Len(out)

\* What every generator query does: a query through a registered filter
\* creates no generator; a generator that exists has answered one next()
\* for xFilter and one for each xNext.
GeneratorStepsWithCalls ==
    /\ cursor.using_iterator =>
          /\ seek.fx.generator_factory = 0
          /\ calls.generator_factory = 0
          /\ cursor.generator = NullGen
    /\ ~cursor.generator.isnull =>
          /\ GenNextCalls = 1 + EngineNextCalls
          /\ GenNextCalls <= Len(out) + 1

\* C29 as stated: every xFilter call of a generator table that selects the
\* full scan calls the generator factory exactly once and the new
\* generator's next() exactly once, every later xNext calls that generator's
\* next() exactly once, and a call that selects a registered filter calls
\* neither the factory nor a generator's next().
C29_FullScanCallsFactoryOnce ==
    GeneratorQuery =>
        /\ GeneratorStepsWithCalls
        /\ ~cursor.using_iterator => seek.fx.generator_factory = 1

\* C29 (amended): the full scan calls the generator factory exactly once
\* when the definition has one and not at all when it has none; a generator
\* the factory returned answers next() once for xFilter and once for every
\* later xNext, so n delivered rows cost at most n + 1 next() calls; without
\* a factory, or when a registered filter is selected, no generator exists
\* and no next() is called.
C29_FullScanCallsRegisteredFactoryOnce ==
    GeneratorQuery =>
        /\ GeneratorStepsWithCalls
        /\ (~cursor.using_iterator /\ def.generator_factory_fn.set) =>
              seek.fx.generator_factory = 1 /\ calls.generator_factory = 1
        /\ (~cursor.using_iterator /\ ~def.generator_factory_fn.set) =>
              /\ seek.fx.generator_factory = 0
              /\ cursor.generator = NullGen

\* A full scan delivered two rows and ended: three next() calls.
C29_Witness ==
    /\ GeneratorQuery
    /\ ~cursor.using_iterator
    /\ def.generator_factory_fn.set
    /\ pc = "done"
    /\ Len(out) = 2
    /\ GenNextCalls = 3

\* A generator table in Stream mode whose scan has ended was asked for its
\* columns and its rowid.
StreamProbe == def.flavor = "generator" /\ ~cursor.using_iterator /\ probe.made

\* C30: in Stream mode, once the generator's next() has returned false, or
\* when the factory is unset or returned null, xColumn yields the engine's
\* null, xRowid yields 0, and the generator's current() and rowid() are not
\* called.
C30_ExhaustedStreamYieldsNull ==
    StreamProbe =>
        /\ cursor.generator.isnull \/ cursor.generator_eof
        /\ \A i \in 1..Len(probe.values) : probe.values[i] = NullVal
        /\ probe.getter = 0
        /\ probe.rowid = 0
        /\ probe.gen_rowid = 0

\* The probe came after a generator had delivered a row and then returned
\* false, so its current() and rowid() would not have answered null and 0.
C30_Witness ==
    /\ StreamProbe
    /\ ~cursor.generator.isnull
    /\ cursor.generator.trues >= 1
    /\ cursor.generator.falses = 1
    /\ gen_rowid(cursor.generator) # 0

-----------------------------------------------------------------------------
(* Further properties of the planner (SpecPlan) *)

\* No usable equality constraint is on a column with a filter or an index.
NoOptimizedOption ==
    /\ FilterOptionCosts(def, cons) = {}
    /\ IndexOptions(def, cons) = {}

\* C31: when no optimized option applies, best-index sets idxNum = 0 and
\* reports estimatedCost = estimatedRows = estimate_rows() when the advisor
\* is supplied, else 100000 (live) or 1000 (cached, generator).
C31_FullScanEstimate ==
    (Planned /\ def.flavor \in PlanFlavors /\ NoOptimizedOption) =>
        /\ pInfo.idxNum = FILTER_NONE
        /\ pInfo.estimatedCost = FullScanCost(def)
        /\ pInfo.estimatedRows = FullScanCost(def)

\* A cached table with a filter and no advisor was planned for an equality
\* on a column that has neither filter nor index.
C31_Witness ==
    /\ Planned
    /\ def.flavor = "cached"
    /\ ~def.estimate_rows.set
    /\ Len(def.filters) >= 1
    /\ UsableEq(cons) # {}
    /\ NoOptimizedOption
    /\ pInfo.estimatedCost = CachedDefaultEstimate

-----------------------------------------------------------------------------
(* The setter loop of an UPDATE (SpecUpdate) *)

\* The setter calls of the last xUpdate call, in the order they were made.
SetCalls == SelectSeq(upd.log, LAMBDA e : e.fn = "set")

\* Columns that have a value in argv, are writable and hold a setter.
SettableCols ==
    { i \in 0..(Len(wdef.columns) - 1) :
        /\ i < Len(upd.argv) - 2
        /\ wdef.columns[i + 1].writable
        /\ wdef.columns[i + 1].set }

\* C32: an UPDATE of row r on a live table calls set(r, argv[2 + i]) for
\* exactly the columns i that are writable and have a setter, in increasing
\* column order, and stops at the first setter that returns false; no
\* setter runs for a non-writable column or for a column at or beyond
\* argc - 2, so no other cell of the host changes.
C32_SettersOfWritableColumnsInOrder ==
    (LiveUpdateCall /\ IsUpdate) =>
        /\ \A k \in 1..Len(SetCalls) : SetCalls[k].col \in SettableCols
        /\ \A k \in 1..(Len(SetCalls) - 1) :
              SetCalls[k].col < SetCalls[k + 1].col /\ SetCalls[k].ok
        /\ \A i \in SettableCols :
              \/ \E k \in 1..Len(SetCalls) : SetCalls[k].col = i
              \/ \E k \in 1..Len(SetCalls) : ~SetCalls[k].ok /\ SetCalls[k].col < i
        /\ (\E k \in 1..Len(SetCalls) : ~SetCalls[k].ok) <=> upd.rc = SQLITE_ERROR
        /\ Len(table) = Len(upd.before)
        /\ \A r \in 1..Len(table), i \in 0..(Len(wdef.columns) - 1) :
              table[r][i + 1] =
                  IF /\ r = sqlite3_value_int64(upd.argv[1]) + 1
                     /\ \E k \in 1..Len(SetCalls) : SetCalls[k].col = i /\ SetCalls[k].ok
                  THEN sqlite3_value_int64(upd.argv[i + 3])
                  ELSE upd.before[r][i + 1]

\* An UPDATE carried a value for a non-writable column that holds a setter
\* and for a writable one: only the second setter ran.
C32_Witness ==
    /\ LiveUpdateCall /\ IsUpdate
    /\ Len(wdef.columns) = 2
    /\ Len(upd.argv) = 4
    /\ ~wdef.columns[1].writable /\ wdef.columns[1].set
    /\ wdef.columns[2].writable /\ wdef.columns[2].set
    /\ Len(SetCalls) = 1
    /\ SetCalls[1].col = 1
    /\ table[1] # upd.before[1]

-----------------------------------------------------------------------------
(* A column with a filter and an index (SpecIndexPlan) *)

\* Usable equality constraints on an indexed column.
OnIndexed == { i \in UsableEq(cons) : find_index(def, cons[i].iColumn) >= 0 }

\* Those of them whose column also has a filter of cost 10.
OnFilteredAndIndexed ==
    { i \in OnIndexed :
        /\ find_filter(def, cons[i].iColumn) # NoFilter
        /\ def.filters[find_filter(def, cons[i].iColumn)].estimated_cost = 10 }

IndexPlanned == Planned /\ def.flavor = "cached"

-----------------------------------------------------------------------------
(* DELETE of the completed tasks (SpecDelete) *)

\* The tasks after "Writable UPDATE": tasks 2 and 3 are done.
ScenarioTasks == << <<1, 0>>, <<2, 1>>, <<3, 1>>, <<4, 0>> >>

\* The statement ran on the scenario's table and has issued all its deletes.
DeleteStatementDone ==
    /\ pc = "deleting"
    /\ rowids = << >>
    /\ upd.made
    /\ upd.before = ScenarioTasks

\* C34: after DELETE FROM t WHERE done = 1 on the scenario's tasks the row
\* count is 2, before_modify("DELETE FROM t") ran once per deleted row, and
\* the rows removed are the completed ones: every remaining task has
\* done = 0.
C34_DeleteRemovesCompletedTasks ==
    DeleteStatementDone =>
        /\ Len(host) = 2
        /\ Cardinality(CallsOf("before_modify")) = 2
        /\ \A i \in CallsOf("before_modify") : upd.log[i].text = "DELETE FROM t"
        /\ Cardinality(CallsOf("delete_row")) = 2
        /\ \A r \in 1..Len(host) : host[r][2] = 0

-----------------------------------------------------------------------------
(* The termination latch (SpecLatch) *)

\* The termination latch of the cursor's mode: iterator_eof in Filter mode,
\* generator_eof in Stream mode.
Latched(c, d) ==
    IF c.using_iterator THEN c.iterator_eof
    ELSE d.flavor = "generator" /\ c.generator_eof

\* A step of xFilter: the only steps that reach "eof" from elsewhere than
\* an xNext in the middle of a scan.
FilterStep == pc' = "eof" /\ pc # "next"

\* C37: in Filter and Stream modes the termination latch is sticky: once it
\* is set, every step other than a new xFilter leaves it set and xEof
\* returns true after it, also when a later next() returned true or the
\* iterator's eof() returns false.
C37_LatchIsSticky ==
    [][ (Latched(cursor, def) /\ ~FilterStep) =>
            /\ Latched(cursor', def')
            /\ xEof(cursor', def', cache') = 1 ]_vars

\* After the latch was set, a later next() returned true and the
\* iterator's eof() returns false; the xEof asked after it returned true.
C37_Witness ==
    /\ pc = "done"
    /\ eofResult = 1
    /\ cursor.using_iterator
    /\ cursor.iterator_eof
    /\ cursor.iterator.last
    /\ cursor.iterator.falses >= 1
    /\ ~iter_eof(cursor.iterator)

\* C38: every xFilter call, the first after open and each re-seek, leaves
\* the cursor in the state a freshly opened cursor has after the same call
\* (same idxNum, argc and argv[0], the factories returning null or an object
\* with the script of the one the cursor holds): nothing of the
\* previous scan's position, total, iterator, generator, latches or index
\* match pointer survives; and a cursor never holds an iterator and a
\* generator at the same time.
C38_FilterStartsFromFreshCursor ==
    [][ /\ FilterStep =>
              \E made \in { NullIter, NewIter(cursor'.iterator.script,
                                               cursor'.iterator.eof_mode) },
                 madeGen \in { NullGen, NewGen(cursor'.generator.script) } :
                  cursor' = xFilter(vtab_open, def, cache, host, seek'.idxNum,
                                    seek'.argc, seek'.argv0, made, madeGen).cursor
        /\ cursor'.iterator.isnull \/ cursor'.generator.isnull ]_vars

\* A live cursor whose earlier scan ran to its end (the last xEof returned
\* true) was filtered again for a full scan and stands at position 0 of
\* the host's rows.
C38_Witness ==
    /\ pc = "eof"
    /\ eofResult = 1
    /\ def.flavor = "live"
    /\ ~cursor.using_iterator
    /\ cursor.iterator.isnull
    /\ cursor.idx = 0
    /\ cursor.total = Len(host)
    /\ cursor.total > 0

-----------------------------------------------------------------------------
(* Properties of the socket server (SpecServer) *)

\* The string a request carries in its top-level field name: the value of
\* the last field of that name; none ("") when the text is no object, when
\* there is no such field, or when a field of that name is not a string.
StringOf(request, name) ==
    LET at == { i \in 1..Len(request.fields) : request.fields[i].key = name } IN
    IF ~request.object \/ at = {} \/ (\E i \in at : ~request.fields[i].str) THEN ""
    ELSE request.fields[CHOOSE i \in at : \A j \in at : j <= i].val

\* The server requires a token and has handled a request.
CheckedExchange == srv.last.made /\ srv.config.auth_token # ""

Unauthorized == QueryFail("Unauthorized")

\* C39 as stated: with a non-empty auth_token the query handler is invoked
\* only for a request whose top-level token string equals auth_token, and
\* every request whose token is missing or different is answered with
\* {"success":false,"error":"Unauthorized"}, the handler is not called and
\* the connection stays open.
C39_TokenMismatchIsUnauthorized ==
    CheckedExchange =>
        /\ srv.last.handler_called =>
              StringOf(srv.last.request, "token") = srv.config.auth_token
        /\ StringOf(srv.last.request, "token") # srv.config.auth_token =>
              /\ srv.last.response = Unauthorized
              /\ ~srv.last.handler_called
              /\ srv.last.keep_open

\* C39 (amended): the handler is invoked only for a request whose token
\* equals auth_token; a request with a non-empty sql string whose token is
\* missing or different is answered Unauthorized; a request without a
\* non-empty sql string is answered "Invalid request: missing sql field"
\* whatever its token; in both cases the handler is not called and the
\* connection stays open.
C39_TokenMismatchWithSqlIsUnauthorized ==
    CheckedExchange =>
        /\ srv.last.handler_called =>
              StringOf(srv.last.request, "token") = srv.config.auth_token
        /\ ( /\ StringOf(srv.last.request, "sql") # ""
             /\ StringOf(srv.last.request, "token") # srv.config.auth_token ) =>
              /\ srv.last.response = Unauthorized
              /\ ~srv.last.handler_called
              /\ srv.last.keep_open
        /\ StringOf(srv.last.request, "sql") = "" =>
              /\ srv.last.response = QueryFail("Invalid request: missing sql field")
              /\ ~srv.last.handler_called
              /\ srv.last.keep_open

\* A request with an sql string and a wrong token was answered
\* Unauthorized; the handler was not called and the server waits for the
\* next request on the same connection.
C39_Witness ==
    /\ srv.config.auth_token # ""
    /\ srv.last.made
    /\ StringOf(srv.last.request, "sql") # ""
    /\ StringOf(srv.last.request, "token") \notin {"", srv.config.auth_token}
    /\ srv.last.response = Unauthorized
    /\ ~srv.last.handler_called
    /\ srv.unauthorized = 1
    /\ srv.client
    /\ srv.w = "h_recv"

\* C40: once run_async was called, a stop() that has returned has joined
\* the background thread, so the Server is never destroyed while its thread
\* is joinable; the listening socket is closed at most once, and exactly
\* once by the time the Server is destroyed.
C40_StopJoinsThread ==
    /\ (srv.stop_returned /\ srv.thread # "none") => srv.thread = "joined"
    /\ srv.destroyed => srv.thread # "joinable"
    /\ srv.closes <= 1
    /\ (srv.destroyed /\ srv.sockets = 1) => srv.closes = 1

====
